---- MODULE Spec2Model ----
(***************************************************************************)
(* A model of the trade-settlement core of server.js: the in-memory users  *)
(* map and transaction ledger, the trade validator, and the buy and sell   *)
(* handlers, which suspend once (at the price fetch) and then run their    *)
(* settlement segment synchronously.                                       *)
(*                                                                         *)
(* Numbers.  JavaScript numbers are modelled as exact values: prices and   *)
(* cash are whole numbers of the currency unit, avgPrice is an exact       *)
(* fraction [n, d] in lowest terms.  IEEE-754 rounding is not modelled.    *)
(*                                                                         *)
(* JSON values.  A request's quantity and the gateway's price field are    *)
(* tagged values [t, v]: t = "int" (the integer v), "frac" (the non-integer*)
(* number v + 1/2), "str" (a non-empty string, truthy and not a number),   *)
(* "none" (absent / undefined / null).                                     *)
(*                                                                         *)
(* Files.  disk holds the two data files: whether each exists and, if so,  *)
(* the JSON document written last.  A write that fails (writeFileSync      *)
(* throws, the error is logged) leaves the file as it was.                 *)
(*                                                                         *)
(* Sessions.  The users map carries each user's persistentSessions, which  *)
(* are part of the users file.  Session tokens are random in the code; the *)
(* model issues the next unused token of Tokens.  A request of the buy and *)
(* sell handlers is taken after validateSession has accepted its token.    *)
(***************************************************************************)
EXTENDS Integers, Sequences, FiniteSets, TLC

VARIABLES
    users,              \* userId -> user record            (server.js:22)
    transactions,       \* the ledger, a sequence           (server.js:23)
    suspiciousActivity, \* <<identifier, type>> -> events   (server.js:26)
    inflight,           \* request id -> request suspended at its price fetch
    nextReq,            \* number of buy/sell requests received so far
    succeeded,          \* number of buy/sell requests answered with success
    now,                \* Date.now()
    disk,               \* the users file and the transactions file
    issued,             \* number of session tokens generated so far
    reply,              \* the account-route response observed last
    boards,             \* leaderboard computations: suspended or answered
    history,            \* the transaction history returned last
    activeSessions,     \* token -> session                 (server.js:24)
    requestCounts,      \* ip -> times of its requests      (server.js:25)
    admitted,           \* ip -> times of the requests the rate limiter let by
    last                \* the buy or sell request answered last: the request,
                        \* the gateway's answer it got, the response sent

vars == <<users, transactions, suspiciousActivity, inflight, nextReq,
          succeeded, now, disk, issued, reply, boards, history,
          activeSessions, requestCounts, admitted, last>>

(***************************************************************************)
(* Bounds of the model.                                                    *)
(***************************************************************************)
MaxRequests == 3
MaxInflight == 2
MaxTime == 1
MaxRapidRequests == 8
MaxRapidTime == 1000
MaxFetchRequests == 3
MaxAccountRequests == 2
MaxPersistRequests == 2
MaxFailRequests == 3
MaxLogins == 2

(***************************************************************************)
(* Program constants.                                                      *)
(***************************************************************************)
TutorialAward == 100000
\* SESSION_DURATION, in days: 30 * 24 * 60 * 60 * 1000 ms
SessionDays == 30
RapidWindow == 1000
RapidLimit == 5

\* TUTORIAL_LESSONS[i].correctAnswer, in order.
CorrectAnswers == <<1, 2, 1, 1, 1>>

MaxUsers == 104
UserIds == [i \in 1..MaxUsers |-> "u" \o ToString(i)]

\* generateSessionToken(): the tokens in the order they are generated
Tokens == <<"t1", "t2", "t3", "t4", "t5", "t6">>

\* hashPassword(password): SHA-256, taken to be free of collisions
HashPassword(password) == <<"sha256", password>>

\* Date.now() + SESSION_DURATION at time t, kept as days and milliseconds
Expiry(t) == [days |-> SessionDays, ms |-> t]

(***************************************************************************)
(* Exact fractions.                                                        *)
(***************************************************************************)
RECURSIVE GCD(_, _)
GCD(a, b) == IF b = 0 THEN a ELSE GCD(b, a % b)

Frac(n, d) == LET g == GCD(n, d) IN [n |-> n \div g, d |-> d \div g]

Whole(k) == [n |-> k, d |-> 1]

(***************************************************************************)
(* JSON values and JavaScript's tests on them.                             *)
(***************************************************************************)
JInt(k) == [t |-> "int", v |-> k]
JFrac(k) == [t |-> "frac", v |-> k]
JStr == [t |-> "str", v |-> 0]
JNone == [t |-> "none", v |-> 0]

\* typeof x === 'number'
IsNumber(x) == x.t \in {"int", "frac"}

\* !x
Falsy(x) == x.t = "none" \/ (x.t = "int" /\ x.v = 0)

\* x <= 0, which is false for a value that converts to NaN
LeqZero(x) ==
    \/ x.t = "int" /\ x.v <= 0
    \/ x.t = "frac" /\ x.v < 0

\* Number.isInteger(x)
IsInteger(x) == x.t = "int"

\* symbol.toUpperCase() on the symbols of the model
ToUpperCase(s) ==
    CASE s = "x" -> "X"
      [] s = "y" -> "Y"
      [] OTHER -> s

(***************************************************************************)
(* The data files.  JSON.stringify writes an object as its keys, in        *)
(* insertion order, with their values, an array as its elements in order,  *)
(* and a finite number as a number token; JSON.parse reads them back.  The *)
(* users map is keyed by userId, inserted in the order of UserIds.         *)
(***************************************************************************)
JNumber(x) == [t |-> "number", v |-> x]

StringifyHolding(h) ==
    [quantity |-> JNumber(h.quantity), avgPrice |-> JNumber(h.avgPrice)]

ParseHolding(j) == [quantity |-> j.quantity.v, avgPrice |-> j.avgPrice.v]

StringifySession(x) ==
    [token |-> x.token,
     expires |-> JNumber(x.expires)]

ParseSession(j) == [token |-> j.token, expires |-> j.expires.v]

StringifyUser(u) ==
    [userId |-> u.userId, username |-> u.username, password |-> u.password,
     cash |-> JNumber(u.cash),
     portfolio |-> [k \in DOMAIN u.portfolio |-> StringifyHolding(u.portfolio[k])],
     tutorialStep |-> JNumber(u.tutorialStep),
     tutorialCompleted |-> u.tutorialCompleted,
     uiTutorialCompleted |-> u.uiTutorialCompleted,
     persistentSessions |->
         [i \in 1..Len(u.persistentSessions) |->
             StringifySession(u.persistentSessions[i])],
     createdAt |-> JNumber(u.createdAt),
     lastActivity |-> JNumber(u.lastActivity)]

ParseUser(j) ==
    [userId |-> j.userId, username |-> j.username, password |-> j.password,
     cash |-> j.cash.v,
     portfolio |-> [k \in DOMAIN j.portfolio |-> ParseHolding(j.portfolio[k])],
     tutorialStep |-> j.tutorialStep.v,
     tutorialCompleted |-> j.tutorialCompleted,
     uiTutorialCompleted |-> j.uiTutorialCompleted,
     persistentSessions |->
         [i \in 1..Len(j.persistentSessions) |->
             ParseSession(j.persistentSessions[i])],
     createdAt |-> j.createdAt.v,
     lastActivity |-> j.lastActivity.v]

\* JSON.stringify(users, null, 2): the members <<userId, user>> in order
StringifyUsers(us) ==
    LET ids == SelectSeq(UserIds, LAMBDA id : id \in DOMAIN us) IN
    [i \in 1..Len(ids) |-> <<ids[i], StringifyUser(us[ids[i]])>>]

\* JSON.parse of a users document
ParseUsers(doc) ==
    [id \in {doc[i][1] : i \in DOMAIN doc} |->
        ParseUser(doc[CHOOSE i \in DOMAIN doc : doc[i][1] = id][2])]

StringifyRecord(x) ==
    [userId |-> x.userId, type |-> x.type, symbol |-> x.symbol,
     quantity |-> JNumber(x.quantity), price |-> JNumber(x.price),
     timestamp |-> JNumber(x.timestamp)]

ParseRecord(j) ==
    [userId |-> j.userId, type |-> j.type, symbol |-> j.symbol,
     quantity |-> j.quantity.v, price |-> j.price.v,
     timestamp |-> j.timestamp.v]

\* JSON.stringify(transactions, null, 2)
StringifyTransactions(txs) ==
    [i \in 1..Len(txs) |-> StringifyRecord(txs[i])]

\* Mutant: the records are read back in the reverse order.
ParseTransactions_Reversed(doc) ==
    [i \in 1..Len(doc) |-> ParseRecord(doc[Len(doc) + 1 - i])]

\* JSON.parse of a transactions document
ParseTransactions(doc) == [i \in 1..Len(doc) |-> ParseRecord(doc[i])]

File(exists, data) == [exists |-> exists, data |-> data]

NoFile == File(FALSE, <<>>)

\* Mutant: the file is written even when the write fails.
SaveUsers_IgnoresFailure(d, us, ok) ==
    [d EXCEPT !.users = File(TRUE, StringifyUsers(us))]

\* saveUsers(); ok tells whether writeFileSync succeeds
SaveUsers(d, us, ok) ==
    IF ok THEN [d EXCEPT !.users = File(TRUE, StringifyUsers(us))] ELSE d

\* saveTransactions()
SaveTransactions(d, txs, ok) ==
    IF ok THEN [d EXCEPT !.transactions = File(TRUE, StringifyTransactions(txs))]
    ELSE d

\* loadData() on the stores as the module's declarations leave them
LoadData(d) ==
    [users |-> IF d.users.exists THEN ParseUsers(d.users.data)
               ELSE [id \in {} |-> id],
     transactions |-> IF d.transactions.exists
                      THEN ParseTransactions(d.transactions.data)
                      ELSE <<>>]

(***************************************************************************)
(* logSuspiciousActivity: append an event under the key identifier-type.   *)
(***************************************************************************)
LogSuspiciousActivity(log, identifier, type, details, t) ==
    LET key == <<identifier, type>>
        old == IF key \in DOMAIN log THEN log[key] ELSE <<>>
        new == Append(old, [timestamp |-> t, details |-> details])
    IN  [k \in DOMAIN log \cup {key} |-> IF k = key THEN new ELSE log[k]]

(***************************************************************************)
(* validateTradeRequest.  The result carries the log as the call leaves it.*)
(***************************************************************************)
\* Mutant: the records of every user are counted.
RecentTrades_AnyUser(txs, userId, t) ==
    SelectSeq(txs, LAMBDA x : t - x.timestamp < RapidWindow)

\* transactions.filter(t => t.userId === userId && Date.now() - t.timestamp < 1000)
RecentTrades(txs, userId, t) ==
    SelectSeq(txs, LAMBDA x : x.userId = userId /\ t - x.timestamp < RapidWindow)

\* Mutant: the sixth trade of the window is already refused.
TooQuickly_AtLimit(count) == count >= RapidLimit

\* recentTrades.length > 5
TooQuickly(count) == count > RapidLimit

\* Mutant: the integer test is left out.
BadQuantity_NoIntegerTest(quantity) ==
    ~IsNumber(quantity) \/ LeqZero(quantity)

\* typeof quantity !== 'number' || quantity <= 0 || !Number.isInteger(quantity)
BadQuantity(quantity) ==
    ~IsNumber(quantity) \/ LeqZero(quantity) \/ ~IsInteger(quantity)

\* Mutant: the type test of the price is left out.
BadPrice_NoTypeTest(price) == LeqZero(price)

\* typeof price !== 'number' || price <= 0
BadPrice(price) == ~IsNumber(price) \/ LeqZero(price)

\* Mutant: the price is checked before the quantity.
ValidateTradeRequest_PriceFirst(us, txs, log, userId, symbol, quantity, price, t) ==
    IF userId \notin DOMAIN us
    THEN [valid |-> FALSE, reason |-> "User not found", log |-> log]
    ELSE IF BadPrice(price)
    THEN [valid |-> FALSE, reason |-> "Invalid price",
          log |-> LogSuspiciousActivity(log, userId, "INVALID_PRICE",
                      [symbol |-> symbol, price |-> price], t)]
    ELSE IF BadQuantity(quantity)
    THEN [valid |-> FALSE, reason |-> "Invalid quantity",
          log |-> LogSuspiciousActivity(log, userId, "INVALID_QUANTITY",
                      [symbol |-> symbol, quantity |-> quantity], t)]
    ELSE LET count == Len(RecentTrades(txs, userId, t)) IN
         IF TooQuickly(count)
         THEN [valid |-> FALSE, reason |-> "Trading too quickly",
               log |-> LogSuspiciousActivity(log, userId, "RAPID_TRADING",
                           [count |-> count], t)]
         ELSE [valid |-> TRUE, reason |-> "", log |-> log]

ValidateTradeRequest(us, txs, log, userId, symbol, quantity, price, t) ==
    IF userId \notin DOMAIN us
    THEN [valid |-> FALSE, reason |-> "User not found", log |-> log]
    ELSE IF BadQuantity(quantity)
    THEN [valid |-> FALSE, reason |-> "Invalid quantity",
          log |-> LogSuspiciousActivity(log, userId, "INVALID_QUANTITY",
                      [symbol |-> symbol, quantity |-> quantity], t)]
    ELSE IF BadPrice(price)
    THEN [valid |-> FALSE, reason |-> "Invalid price",
          log |-> LogSuspiciousActivity(log, userId, "INVALID_PRICE",
                      [symbol |-> symbol, price |-> price], t)]
    ELSE LET count == Len(RecentTrades(txs, userId, t)) IN
         IF TooQuickly(count)
         THEN [valid |-> FALSE, reason |-> "Trading too quickly",
               log |-> LogSuspiciousActivity(log, userId, "RAPID_TRADING",
                           [count |-> count], t)]
         ELSE [valid |-> TRUE, reason |-> "", log |-> log]

(***************************************************************************)
(* fetchStockPrice, given the gateway's answer gw = [ok, price]: ok is     *)
(* response.ok (FALSE also stands for a failed connection), price is       *)
(* data.chart.result[0].meta.regularMarketPrice.                           *)
(***************************************************************************)
\* Mutant: only a missing price is refused.
InvalidStockPrice_MissingOnly(price) == Falsy(price)

\* !price || price <= 0
InvalidStockPrice(price) == Falsy(price) \/ LeqZero(price)

FetchStockPrice(symbol, gw) ==
    IF ~gw.ok
    THEN [threw |-> TRUE, price |-> JNone,
          message |-> "Error fetching " \o symbol \o ": Failed to fetch stock price"]
    ELSE IF InvalidStockPrice(gw.price)
    THEN [threw |-> TRUE, price |-> JNone,
          message |-> "Error fetching " \o symbol \o ": Invalid stock price"]
    ELSE [threw |-> FALSE, price |-> gw.price, message |-> ""]

(***************************************************************************)
(* Portfolios: a function whose domain is the set of held symbols.         *)
(***************************************************************************)
\* Mutant: the holding is keyed by the upper-cased symbol.
SetHolding_UpperCase(pf, s, h) ==
    [k \in DOMAIN pf \cup {ToUpperCase(s)} |->
        IF k = ToUpperCase(s) THEN h ELSE pf[k]]

SetHolding(pf, s, h) ==
    [k \in DOMAIN pf \cup {s} |-> IF k = s THEN h ELSE pf[k]]

\* delete user.portfolio[symbol]
DeleteHolding(pf, s) == [k \in DOMAIN pf \ {s} |-> pf[k]]

\* The outcome of a handler segment: the stores and the files as it leaves
\* them, and the response it sends.
Outcome(us, txs, log, d, status, error) ==
    [users |-> us, transactions |-> txs, log |-> log, disk |-> d,
     status |-> status, error |-> error]

\* Mutant: the record takes the place of the last record.
Push_Replace(txs, record) ==
    IF txs = <<>> THEN <<record>> ELSE [txs EXCEPT ![Len(txs)] = record]

\* Mutant: the new record is put in front of the ledger.
Push_Front(txs, record) == <<record>> \o txs

\* transactions.push(record)
Push(txs, record) == Append(txs, record)

\* Mutant: only the users file is written.
SaveBoth_UsersOnly(d, us, txs, w) == SaveUsers(d, us, w.users)

\* saveUsers(); saveTransactions(); w tells which of the writes succeed
SaveBoth(d, us, txs, w) ==
    SaveTransactions(SaveUsers(d, us, w.users), txs, w.transactions)

(***************************************************************************)
(* The settlement segment of POST /api/buy: all that runs once the awaited *)
(* fetchStockPrice has settled with the gateway's answer gw, at time t.    *)
(***************************************************************************)
\* Mutant: the check only asks for some cash.
InsufficientFunds_AnyCash(cash, cost) == cash <= 0

\* user.cash < cost
InsufficientFunds(cash, cost) == cash < cost

\* Mutant: the bought shares replace the held ones instead of adding to them.
BuyHolding_Overwrite(currentHolding, quantity, cost) ==
    [quantity |-> quantity, avgPrice |-> Frac(cost, quantity)]

\* Mutant: the average of the old average and the new price, not of dollars.
BuyHolding_NaiveAverage(currentHolding, quantity, cost) ==
    LET a == currentHolding.avgPrice IN
    [quantity |-> currentHolding.quantity + quantity,
     avgPrice |-> Frac(a.n * quantity + cost * a.d, 2 * a.d * quantity)]

\* The holding after a buy of quantity shares for cost in total.
BuyHolding(currentHolding, quantity, cost) ==
    LET totalShares == currentHolding.quantity + quantity
        a == currentHolding.avgPrice
        \* (avgPrice * quantity) + cost, as the fraction totalCostN / a.d
        totalCostN == a.n * currentHolding.quantity + cost * a.d
    IN  [quantity |-> totalShares,
         avgPrice |-> Frac(totalCostN, a.d * totalShares)]

\* Mutant: the record carries the total cost in place of the price.
BuyRecord_Cost(userId, symbol, quantity, price, t) ==
    [userId |-> userId, type |-> "BUY", symbol |-> symbol,
     quantity |-> quantity, price |-> price * quantity, timestamp |-> t]

BuyRecord(userId, symbol, quantity, price, t) ==
    [userId |-> userId, type |-> "BUY", symbol |-> symbol,
     quantity |-> quantity, price |-> price, timestamp |-> t]

BuySettle(us, txs, log, d, req, gw, t, w) ==
    LET f == FetchStockPrice(ToUpperCase(req.symbol), gw) IN
    IF f.threw THEN Outcome(us, txs, log, d, 500, f.message)
    ELSE
    LET validation == ValidateTradeRequest(us, txs, log, req.userId,
                          req.symbol, req.quantity, f.price, t) IN
    IF ~validation.valid
    THEN Outcome(us, txs, validation.log, d, 400, validation.reason)
    ELSE
    LET price == f.price.v
        quantity == req.quantity.v
        cost == price * quantity
        user == us[req.userId]
    IN
    IF InsufficientFunds(user.cash, cost)
    THEN Outcome(us, txs, validation.log, d, 400, "Insufficient funds")
    ELSE
    LET currentHolding ==
            IF req.symbol \in DOMAIN user.portfolio
            THEN user.portfolio[req.symbol]
            ELSE [quantity |-> 0, avgPrice |-> Whole(0)]
        user2 == [user EXCEPT
                    !.cash = @ - cost,
                    !.portfolio = SetHolding(@, req.symbol,
                                      BuyHolding(currentHolding, quantity, cost))]
        us2 == [us EXCEPT ![req.userId] = user2]
        txs2 == Push(txs, BuyRecord(req.userId, req.symbol, quantity, price, t))
    IN  Outcome(us2, txs2, validation.log, SaveBoth(d, us2, txs2, w), 200, "")

(***************************************************************************)
(* The settlement segment of POST /api/sell.                               *)
(***************************************************************************)
\* Mutant: only the presence of the holding is checked.
InsufficientShares_PresenceOnly(pf, symbol, quantity) ==
    symbol \notin DOMAIN pf

\* !holding || holding.quantity < quantity
InsufficientShares(pf, symbol, quantity) ==
    symbol \notin DOMAIN pf \/ pf[symbol].quantity < quantity

\* Mutant: an exhausted holding is left in place with quantity 0.
SellHolding_KeepZero(pf, symbol, quantity) ==
    [pf EXCEPT ![symbol].quantity = @ - quantity]

\* Mutant: a partial sell rebuilds the holding and loses its average price.
SellHolding_LoseAverage(pf, symbol, quantity) ==
    LET left == pf[symbol].quantity - quantity IN
    IF left = 0
    THEN DeleteHolding(pf, symbol)
    ELSE [pf EXCEPT ![symbol] = [quantity |-> left, avgPrice |-> Whole(0)]]

\* holding.quantity -= quantity; if (holding.quantity === 0) delete ...
SellHolding(pf, symbol, quantity) ==
    LET left == pf[symbol].quantity - quantity IN
    IF left = 0
    THEN DeleteHolding(pf, symbol)
    ELSE [pf EXCEPT ![symbol].quantity = left]

\* Mutant: a sell is recorded as a buy.
SellRecord_AsBuy(userId, symbol, quantity, price, t) ==
    [userId |-> userId, type |-> "BUY", symbol |-> symbol,
     quantity |-> quantity, price |-> price, timestamp |-> t]

SellRecord(userId, symbol, quantity, price, t) ==
    [userId |-> userId, type |-> "SELL", symbol |-> symbol,
     quantity |-> quantity, price |-> price, timestamp |-> t]

SellSettle(us, txs, log, d, req, gw, t, w) ==
    LET f == FetchStockPrice(ToUpperCase(req.symbol), gw) IN
    IF f.threw THEN Outcome(us, txs, log, d, 500, f.message)
    ELSE
    LET validation == ValidateTradeRequest(us, txs, log, req.userId,
                          req.symbol, req.quantity, f.price, t) IN
    IF ~validation.valid
    THEN Outcome(us, txs, validation.log, d, 400, validation.reason)
    ELSE
    LET price == f.price.v
        quantity == req.quantity.v
        user == us[req.userId]
    IN
    IF InsufficientShares(user.portfolio, req.symbol, quantity)
    THEN Outcome(us, txs, validation.log, d, 400, "Insufficient shares")
    ELSE
    LET proceeds == price * quantity
        user2 == [user EXCEPT
                    !.cash = @ + proceeds,
                    !.portfolio = SellHolding(@, req.symbol, quantity)]
        us2 == [us EXCEPT ![req.userId] = user2]
        txs2 == Push(txs, SellRecord(req.userId, req.symbol, quantity, price, t))
    IN  Outcome(us2, txs2, validation.log, SaveBoth(d, us2, txs2, w), 200, "")

(***************************************************************************)
(* POST /api/register.  The new userId is random in the code; the model    *)
(* takes the next unused id of UserIds (usernames are unique, so there are *)
(* never more users than usernames).  The users file is written before the *)
(* session token is pushed onto the new user's persistentSessions.         *)
(***************************************************************************)
\* username.toLowerCase() on the usernames of the model
ToLowerCase(s) ==
    CASE s = "ANN" -> "ann"
      [] s = "Ann" -> "ann"
      [] s = "Bob" -> "bob"
      [] s = "An" -> "an"
      [] OTHER -> s

\* Mutant: usernames are compared as they are written.
UsernameTaken_CaseSensitive(us, username) ==
    \E id \in DOMAIN us : us[id].username = username

\* Object.values(users).some(u => u.username.toLowerCase() === normalizedUsername)
UsernameTaken(us, username) ==
    \E id \in DOMAIN us : ToLowerCase(us[id].username) = ToLowerCase(username)

\* Mutant: the user starts with the award.
NewUser_Funded(userId, username, password, t) ==
    [userId |-> userId, username |-> username,
     password |-> HashPassword(password), cash |-> TutorialAward,
     portfolio |-> [s \in {} |-> s], tutorialStep |-> 0,
     tutorialCompleted |-> FALSE, uiTutorialCompleted |-> FALSE,
     persistentSessions |-> <<>>, createdAt |-> t, lastActivity |-> t]

NewUser(userId, username, password, t) ==
    [userId |-> userId, username |-> username,
     password |-> HashPassword(password), cash |-> 0,
     portfolio |-> [s \in {} |-> s], tutorialStep |-> 0,
     tutorialCompleted |-> FALSE, uiTutorialCompleted |-> FALSE,
     persistentSessions |-> <<>>, createdAt |-> t, lastActivity |-> t]

\* The result of a handler of the account routes.
Result(us, log, d, status, error) ==
    [users |-> us, log |-> log, disk |-> d, status |-> status, error |-> error]

\* persistentSessions.push({ token, expires: Date.now() + SESSION_DURATION })
PushSession(user, token, t) ==
    [user EXCEPT !.persistentSessions =
                    Append(@, [token |-> token, expires |-> Expiry(t)])]

RegisterUser(us, log, d, userId, username, password, token, t, w) ==
    IF username = "" \/ password = ""
    THEN Result(us, log, d, 400, "Username and password required")
    ELSE IF Len(username) < 3 \/ Len(username) > 20
    THEN Result(us, log, d, 400, "Username must be 3-20 characters")
    ELSE IF Len(password) < 6
    THEN Result(us, log, d, 400, "Password must be at least 6 characters")
    ELSE IF UsernameTaken(us, username)
    THEN Result(us, log, d, 409, "Username already exists")
    ELSE LET us1 == [id \in DOMAIN us \cup {userId} |->
                        IF id = userId
                        THEN NewUser(userId, username, password, t)
                        ELSE us[id]]
             d1 == SaveUsers(d, us1, w)
             us2 == [us1 EXCEPT ![userId] = PushSession(@, token, t)]
         IN  Result(us2, log, d1, 200, "")

(***************************************************************************)
(* POST /api/login.  ip is req.ip.                                         *)
(***************************************************************************)
\* Object.values(users).find(...): the first match in insertion order
FindUser(us, username) ==
    LET ids == SelectSeq(UserIds, LAMBDA id :
                   /\ id \in DOMAIN us
                   /\ ToLowerCase(us[id].username) = ToLowerCase(username))
    IN  IF ids = <<>> THEN "" ELSE Head(ids)

\* Mutant: an address with a failed login on the log is locked out.
LoginUser_Lockout(us, log, d, ip, username, password, token, t, w) ==
    IF username = "" \/ password = ""
    THEN Result(us, log, d, 400, "Username and password required")
    ELSE LET userId == FindUser(us, username) IN
    IF \/ userId = ""
       \/ us[userId].password # HashPassword(password)
       \/ <<ip, "FAILED_LOGIN">> \in DOMAIN log
    THEN Result(us, LogSuspiciousActivity(log, ip, "FAILED_LOGIN", username, t),
                d, 401, "Invalid credentials")
    ELSE LET us2 == [us EXCEPT ![userId] =
                        [PushSession(@, token, t) EXCEPT !.lastActivity = t]]
         IN  Result(us2, log, SaveUsers(d, us2, w), 200, "")

LoginUser(us, log, d, ip, username, password, token, t, w) ==
    IF username = "" \/ password = ""
    THEN Result(us, log, d, 400, "Username and password required")
    ELSE LET userId == FindUser(us, username) IN
    IF userId = "" \/ us[userId].password # HashPassword(password)
    THEN Result(us, LogSuspiciousActivity(log, ip, "FAILED_LOGIN", username, t),
                d, 401, "Invalid credentials")
    ELSE LET us2 == [us EXCEPT ![userId] =
                        [PushSession(@, token, t) EXCEPT !.lastActivity = t]]
         IN  Result(us2, log, SaveUsers(d, us2, w), 200, "")

(***************************************************************************)
(* POST /api/logout.                                                       *)
(***************************************************************************)
\* findIndex(s => s.token === token), 0 when there is none
SessionIndex(sessions, token) ==
    LET idx == {i \in DOMAIN sessions : sessions[i].token = token} IN
    IF idx = {} THEN 0 ELSE CHOOSE i \in idx : \A j \in idx : i <= j

\* splice(idx, 1)
Splice(seq, idx) == SubSeq(seq, 1, idx - 1) \o SubSeq(seq, idx + 1, Len(seq))

\* Mutant: the token is left among the persistent sessions.
LogoutUser_MemoryOnly(us, log, d, token, w) ==
    IF token = ""
    THEN Result(us, log, d, 400, "No token provided")
    ELSE Result(us, log, d, 200, "")

LogoutUser(us, log, d, token, w) ==
    IF token = ""
    THEN Result(us, log, d, 400, "No token provided")
    ELSE LET ids == SelectSeq(UserIds, LAMBDA id :
                        /\ id \in DOMAIN us
                        /\ SessionIndex(us[id].persistentSessions, token) # 0)
         IN
    IF ids = <<>>
    THEN Result(us, log, d, 200, "")
    ELSE LET userId == Head(ids)
             us2 == [us EXCEPT ![userId].persistentSessions =
                        Splice(@, SessionIndex(@, token))]
         IN  Result(us2, log, SaveUsers(d, us2, w), 200, "")

(***************************************************************************)
(* POST /api/tutorial/answer and POST /api/tutorial/ui-complete.           *)
(***************************************************************************)
\* Mutant: the award is granted again by an answer given after completion.
TutorialAnswerUser_AwardAgain(user, answerIndex) ==
    LET step == user.tutorialStep IN
    IF step >= Len(CorrectAnswers)
    THEN [user EXCEPT !.cash = TutorialAward]
    ELSE IF answerIndex # CorrectAnswers[step + 1] THEN user
    ELSE IF step + 1 >= Len(CorrectAnswers)
    THEN [user EXCEPT !.tutorialStep = step + 1,
                      !.tutorialCompleted = TRUE,
                      !.cash = TutorialAward]
    ELSE [user EXCEPT !.tutorialStep = step + 1]

TutorialAnswerUser(user, answerIndex) ==
    LET step == user.tutorialStep IN
    IF step >= Len(CorrectAnswers) THEN user
    ELSE IF answerIndex # CorrectAnswers[step + 1] THEN user
    ELSE IF step + 1 >= Len(CorrectAnswers)
    THEN [user EXCEPT !.tutorialStep = step + 1,
                      !.tutorialCompleted = TRUE,
                      !.cash = TutorialAward]
    ELSE [user EXCEPT !.tutorialStep = step + 1]

\* The handler on the stores: saveUsers() follows every accepted answer.
TutorialAnswerSave(us, log, d, userId, answerIndex, w) ==
    LET step == us[userId].tutorialStep
        us2 == [us EXCEPT ![userId] = TutorialAnswerUser(@, answerIndex)]
    IN  IF step >= Len(CorrectAnswers) \/ answerIndex # CorrectAnswers[step + 1]
        THEN Result(us2, log, d, 200, "")
        ELSE Result(us2, log, SaveUsers(d, us2, w), 200, "")

UiCompleteSave(us, log, d, userId, w) ==
    LET us2 == [us EXCEPT ![userId].uiTutorialCompleted = TRUE] IN
    Result(us2, log, SaveUsers(d, us2, w), 200, "")

(***************************************************************************)
(* Inputs.                                                                 *)
(***************************************************************************)
NoAnswer == [ok |-> FALSE, price |-> JNone]
Price(p) == [ok |-> TRUE, price |-> JInt(p)]

\* The times Date.now() takes in the model up to max: those around each
\* multiple of the rapid-trading window.
TimePoints(max) ==
    {t \in 0..max : t % RapidWindow \in {0, 1, RapidWindow - 1}}

\* An answered buy or sell request: its number, the gateway's answer it
\* got (NoAnswer when it was answered without a fetch), which of its file
\* writes succeeded (NotWritten when it wrote nothing), the response.
Answered(id, fetched, written, status, error) ==
    [id |-> id, fetched |-> fetched, written |-> written,
     status |-> status, error |-> error]

NotWritten == [users |-> FALSE, transactions |-> FALSE]

Request(kind, userId, symbol, quantity) ==
    [kind |-> kind, userId |-> userId, symbol |-> symbol, quantity |-> quantity]

\* A response of an account route (register, login, logout, tutorial), or
\* a restart of the server: the route, the user, name or token it concerned,
\* its other argument (password, answer), whether a file write of the
\* handler would succeed, the status and the error message.
Reply(op, who, arg, w, status, error) ==
    [op |-> op, who |-> who, arg |-> arg, w |-> w,
     status |-> status, error |-> error]

NoReply == Reply("", "", "", FALSE, 0, "")

\* A response of GET /api/transactions: the user and the records returned.
Listing(userId, records) == [userId |-> userId, records |-> records]

NoHistory == Listing("", <<>>)

(***************************************************************************)
(* The middleware: rateLimit and validateSession.                          *)
(***************************************************************************)
RateWindow == 60000
RateMax == 100
InactivityLimit == 3600000
DayMs == 86400000

\* The result of rateLimit: the request counts and the log as it leaves
\* them, and whether it calls next() (status 200) or answers 429.
Limited(counts, log, status, error) ==
    [counts |-> counts, log |-> log, status |-> status, error |-> error]

\* Mutant: the requests at exactly the limit are refused too.
OverLimit_AtLimit(requests) == Len(requests) >= RateMax

\* requests.length > 100
OverLimit(requests) == Len(requests) > RateMax

\* requestCounts.get(ip).filter(time => now - time < 60000)
InWindow(times, t) == SelectSeq(times, LAMBDA time : t - time < RateWindow)

\* Mutant: a refused request is not recorded in the window.
RateLimit_ForgetsRefused(counts, log, ip, path, t) ==
    LET old == IF ip \in DOMAIN counts THEN counts[ip] ELSE <<>>
        requests == Append(InWindow(old, t), t)
        kept == IF OverLimit(requests) THEN InWindow(old, t) ELSE requests
        counts2 == [k \in DOMAIN counts \cup {ip} |->
                       IF k = ip THEN kept ELSE counts[k]]
    IN  IF OverLimit(requests)
        THEN Limited(counts2,
                     LogSuspiciousActivity(log, ip, "RATE_LIMIT_EXCEEDED",
                                           path, t),
                     429, "Too many requests")
        ELSE Limited(counts2, log, 200, "")

\* rateLimit: ip is req.ip, path is req.path
RateLimit(counts, log, ip, path, t) ==
    LET old == IF ip \in DOMAIN counts THEN counts[ip] ELSE <<>>
        requests == Append(InWindow(old, t), t)
        counts2 == [k \in DOMAIN counts \cup {ip} |->
                       IF k = ip THEN requests ELSE counts[k]]
    IN  IF OverLimit(requests)
        THEN Limited(counts2,
                     LogSuspiciousActivity(log, ip, "RATE_LIMIT_EXCEEDED",
                                           path, t),
                     429, "Too many requests")
        ELSE Limited(counts2, log, 200, "")

\* t > expires, expires being a time of issue plus SESSION_DURATION; the
\* comparison is made on days and milliseconds of the day, so that no
\* number exceeds the range of the model's integers.
After(t, expires) ==
    LET day == t \div DayMs
        ms == t % DayMs
        expiresDay == expires.days + expires.ms \div DayMs
        expiresMs == expires.ms % DayMs
    IN  day > expiresDay \/ (day = expiresDay /\ ms > expiresMs)

\* expires > t
Before(t, expires) ==
    LET day == t \div DayMs
        ms == t % DayMs
        expiresDay == expires.days + expires.ms \div DayMs
        expiresMs == expires.ms % DayMs
    IN  expiresDay > day \/ (expiresDay = day /\ expiresMs > ms)

\* activeSessions.set(token, { userId, lastActivity, expires })
SetSession(sessions, token, userId, t, expires) ==
    [k \in DOMAIN sessions \cup {token} |->
        IF k = token
        THEN [userId |-> userId, lastActivity |-> t, expires |-> expires]
        ELSE sessions[k]]

\* activeSessions.delete(token)
DeleteSession(sessions, token) ==
    [k \in DOMAIN sessions \ {token} |-> sessions[k]]

\* The result of validateSession: the sessions as it leaves them, and
\* req.userId when it calls next() (status 200), or the 401 it answers.
Validated(sessions, userId, status, error) ==
    [sessions |-> sessions, userId |-> userId, status |-> status,
     error |-> error]

\* Object.values(users).find(u => u.persistentSessions.some(s =>
\* s.token === token && s.expires > Date.now())): the first in insertion
\* order, "" when there is none
UserWithToken(us, token, t) ==
    LET ids == SelectSeq(UserIds, LAMBDA id :
                   /\ id \in DOMAIN us
                   /\ \E i \in DOMAIN us[id].persistentSessions :
                         /\ us[id].persistentSessions[i].token = token
                         /\ Before(t, us[id].persistentSessions[i].expires))
    IN  IF ids = <<>> THEN "" ELSE Head(ids)

\* Mutant: the request is given to the first user, whoever holds the token.
ValidateSession_FirstUser(sessions, us, token, t) ==
    IF token = "" THEN Validated(sessions, "", 401, "Unauthorized")
    ELSE IF DOMAIN us = {}
    THEN Validated(sessions, "", 401, "Session expired or invalid")
    ELSE Validated(sessions, UserIds[1], 200, "")

\* validateSession: token is the x-session-token header, "" when absent
ValidateSession(sessions, us, token, t) ==
    IF token = "" THEN Validated(sessions, "", 401, "Unauthorized")
    ELSE
    LET known == token \in DOMAIN sessions
        stale == /\ known
                 /\ \/ After(t, sessions[token].expires)
                    \/ t - sessions[token].lastActivity > InactivityLimit
    IN
    IF known /\ ~stale
    THEN Validated([sessions EXCEPT ![token].lastActivity = t],
                   sessions[token].userId, 200, "")
    ELSE
    LET sessions2 == IF stale THEN DeleteSession(sessions, token) ELSE sessions
        userId == UserWithToken(us, token, t)
    IN
    IF userId # ""
    THEN LET held == us[userId].persistentSessions
             sess == held[SessionIndex(held, token)]
         IN  Validated(SetSession(sessions2, token, userId, t, sess.expires),
                       userId, 200, "")
    ELSE Validated(sessions2, "", 401, "Session expired or invalid")

(***************************************************************************)
(* The read routes: GET /api/transactions and GET /api/leaderboard.        *)
(***************************************************************************)
HistorySize == 100
LeaderboardSize == 100

\* seq.sort((a, b) => key(b) - key(a)), keys[i] being the key of seq[i]:
\* descending, elements of equal keys keeping their order
SortDescending(seq, keys) ==
    LET n == Len(seq)
        rank(i) == 1 + Cardinality({j \in 1..n :
                           \/ keys[j] > keys[i]
                           \/ keys[j] = keys[i] /\ j < i})
        \* the ranks, computed once
        ranks == SubSeq([i \in 1..n |-> rank(i)], 1, n)
    IN  [p \in 1..n |-> seq[CHOOSE i \in 1..n : ranks[i] = p]]

\* Mutant: the slice has no end.
Slice_NoLimit(seq, size) == seq

\* seq.slice(0, size)
Slice(seq, size) == SubSeq(seq, 1, IF Len(seq) < size THEN Len(seq) ELSE size)

\* Mutant: the oldest records come first.
History_Oldest(txs, userId) ==
    LET mine == SelectSeq(txs, LAMBDA x : x.userId = userId) IN
    Slice(SortDescending(mine, [i \in 1..Len(mine) |-> 0 - mine[i].timestamp]),
          HistorySize)

\* The records GET /api/transactions returns to userId; filter() copies, so
\* that sort() leaves the ledger as it is.
History(txs, userId) ==
    LET mine == SelectSeq(txs, LAMBDA x : x.userId = userId) IN
    Slice(SortDescending(mine, [i \in 1..Len(mine) |-> mine[i].timestamp]),
          HistorySize)

\* Mutant: the ledger itself is sorted.
ReadHistory_SortsLedger(txs, userId) ==
    [transactions |->
         SortDescending(txs, [i \in 1..Len(txs) |-> txs[i].timestamp]),
     records |-> History(txs, userId)]

\* The history handler: the ledger as it leaves it and the records it
\* returns.
ReadHistory(txs, userId) ==
    [transactions |-> txs, records |-> History(txs, userId)]

\* leaderboard.push({ username, totalValue, cash, portfolioValue })
Entry(user, totalValue) ==
    [username |-> user.username, totalValue |-> totalValue,
     cash |-> user.cash, portfolioValue |-> totalValue - user.cash]

\* A leaderboard computation: the users the outer loop has still to visit,
\* the user it is at ("" between two users), the symbols the inner loop
\* has still to visit, the symbol whose price it awaits, the running
\* totalValue, the entries pushed, and the response once it is sent; and,
\* for the record, the fetches that have settled.
Board(keys, user, todo, awaiting, total, entries, done, response, fetches) ==
    [keys |-> keys, user |-> user, todo |-> todo, awaiting |-> awaiting,
     total |-> total, entries |-> entries, done |-> done,
     response |-> response, fetches |-> fetches]

\* A settled fetch of a leaderboard computation: the user and the symbol it
\* was for, the gateway's answer, and the quantity the user held when it
\* settled (0 when the holding was gone).
Fetch(userId, symbol, fetched, quantity) ==
    [userId |-> userId, symbol |-> symbol, fetched |-> fetched,
     quantity |-> quantity]

\* for (const userId in users): the keys in insertion order
NewBoard(us) ==
    Board(SelectSeq(UserIds, LAMBDA id : id \in DOMAIN us), "", {}, "", 0,
          <<>>, FALSE, <<>>, <<>>)

\* The symbols the inner loop may visit next: for...in passes over a key
\* that was deleted before it was reached.
Visitable(us, b) == b.todo \cap DOMAIN us[b.user].portfolio

\* The computation runs on without suspending: it stops at the next fetch
\* (a user with a symbol to visit) or sorts, slices and responds.  A user
\* without holdings is pushed with the cash as totalValue.
LeaderboardAdvance(us, b) ==
    IF b.user # "" /\ Visitable(us, b) # {}
    THEN b
    ELSE
    LET pushed == IF b.user = "" THEN b.entries
                  ELSE Append(b.entries, Entry(us[b.user], b.total))
        holders == {i \in DOMAIN b.keys :
                       DOMAIN us[b.keys[i]].portfolio # {}}
        passed(n) == [i \in 1..n |-> Entry(us[b.keys[i]], us[b.keys[i]].cash)]
    IN  IF holders = {}
        THEN LET entries == pushed \o passed(Len(b.keys)) IN
             [b EXCEPT
                 !.keys = <<>>, !.user = "", !.todo = {},
                 !.total = IF b.keys = <<>> THEN @
                           ELSE us[b.keys[Len(b.keys)]].cash,
                 !.entries = entries,
                 !.done = TRUE,
                 !.response =
                     Slice(SortDescending(entries,
                               [i \in 1..Len(entries) |->
                                   entries[i].totalValue]),
                           LeaderboardSize)]
        ELSE LET j == CHOOSE i \in holders : \A k \in holders : i <= k
                 userId == b.keys[j]
             IN  [b EXCEPT
                     !.keys = SubSeq(@, j + 1, Len(@)),
                     !.user = userId,
                     !.total = us[userId].cash,
                     !.todo = DOMAIN us[userId].portfolio,
                     !.entries = pushed \o passed(j - 1)]

\* const price = await fetchStockPrice(symbol): the computation suspends
Suspend(b, symbol) == [b EXCEPT !.awaiting = symbol, !.todo = @ \ {symbol}]

\* Mutant: a fetch that fails ends the valuation of the user.
LeaderboardFetched_GivesUp(us, b, gw) ==
    LET f == FetchStockPrice(b.awaiting, gw)
        pf == us[b.user].portfolio
        held == IF b.awaiting \in DOMAIN pf THEN pf[b.awaiting].quantity
                ELSE 0
    IN  [b EXCEPT
           !.awaiting = "",
           !.todo = IF f.threw THEN {} ELSE @,
           !.total = IF ~f.threw /\ b.awaiting \in DOMAIN pf
                     THEN @ + f.price.v * pf[b.awaiting].quantity
                     ELSE @,
           !.fetches = Append(@, Fetch(b.user, b.awaiting, gw, held))]

\* The fetch settles with the answer gw: totalValue += price * quantity,
\* unless the fetch threw or the holding is gone (both are caught).
LeaderboardFetched(us, b, gw) ==
    LET f == FetchStockPrice(b.awaiting, gw)
        pf == us[b.user].portfolio
        held == IF b.awaiting \in DOMAIN pf THEN pf[b.awaiting].quantity
                ELSE 0
    IN  [b EXCEPT
           !.awaiting = "",
           !.total = IF ~f.threw /\ b.awaiting \in DOMAIN pf
                     THEN @ + f.price.v * pf[b.awaiting].quantity
                     ELSE @,
           !.fetches = Append(@, Fetch(b.user, b.awaiting, gw, held))]

(***************************************************************************)
(* The state after construction: no data files, empty stores.              *)
(***************************************************************************)
Init ==
    /\ users = [id \in {} |-> id]
    /\ transactions = <<>>
    /\ suspiciousActivity = [k \in {} |-> k]
    /\ inflight = [r \in {} |-> r]
    /\ nextReq = 0
    /\ succeeded = 0
    /\ now = 0
    /\ disk = [users |-> NoFile, transactions |-> NoFile]
    /\ issued = 0
    /\ reply = NoReply
    /\ boards = [b \in {} |-> b]
    /\ history = NoHistory
    /\ activeSessions = [k \in {} |-> k]
    /\ requestCounts = [k \in {} |-> k]
    /\ admitted = [k \in {} |-> k]
    /\ last = Answered(0, NoAnswer, NotWritten, 0, "")

(***************************************************************************)
(* Actions: one per synchronous handler segment.  writes is the set of     *)
(* outcomes a file write may have (TRUE: it succeeds); observed tells      *)
(* whether the specification keeps the route's response in reply.          *)
(***************************************************************************)
Observe(observed, op, who, arg, w, o) ==
    reply' = IF observed THEN Reply(op, who, arg, w, o.status, o.error)
             ELSE reply

\* limit bounds the tokens issued.
Register(names, passwords, limit, writes, observed) ==
    \E username \in names, password \in passwords, w \in writes :
        /\ issued < limit
        /\ LET userId == UserIds[Cardinality(DOMAIN users) + 1]
               o == RegisterUser(users, suspiciousActivity, disk, userId,
                                 username, password, Tokens[issued + 1], now, w)
           IN  /\ users' = o.users
               /\ disk' = o.disk
               /\ issued' = IF o.status = 200 THEN issued + 1 ELSE issued
               /\ activeSessions' =
                     IF o.status = 200
                     THEN SetSession(activeSessions, Tokens[issued + 1],
                                     userId, now, Expiry(now))
                     ELSE activeSessions
               /\ Observe(observed, "register", username, password, w, o)
        /\ UNCHANGED <<transactions, suspiciousActivity, inflight, nextReq,
                       succeeded, now, last, boards, history,
                       requestCounts, admitted>>

\* The number of events logged under identifier-type.
Logged(log, identifier, type) ==
    IF <<identifier, type>> \in DOMAIN log
    THEN Len(log[<<identifier, type>>]) ELSE 0

\* limit bounds the tokens issued plus the failed logins on record.
Login(ips, names, passwords, limit, writes) ==
    \E ip \in ips, username \in names, password \in passwords, w \in writes :
        /\ issued + Logged(suspiciousActivity, ip, "FAILED_LOGIN") < limit
        /\ LET o == LoginUser(users, suspiciousActivity, disk, ip, username,
                              password, Tokens[issued + 1], now, w)
           IN  /\ users' = o.users
               /\ suspiciousActivity' = o.log
               /\ disk' = o.disk
               /\ issued' = IF o.status = 200 THEN issued + 1 ELSE issued
               /\ activeSessions' =
                     IF o.status = 200
                     THEN SetSession(activeSessions, Tokens[issued + 1],
                                     FindUser(users, username), now,
                                     Expiry(now))
                     ELSE activeSessions
               /\ Observe(TRUE, "login", username, password, w, o)
        /\ UNCHANGED <<transactions, inflight, nextReq, succeeded, now, last,
                       boards, history, requestCounts, admitted>>

Logout(tokens, writes) ==
    \E token \in tokens, w \in writes :
        /\ LET o == LogoutUser(users, suspiciousActivity, disk, token, w)
           IN  /\ users' = o.users
               /\ disk' = o.disk
               /\ activeSessions' =
                     IF token = "" THEN activeSessions
                     ELSE DeleteSession(activeSessions, token)
               /\ Observe(TRUE, "logout", token, "", w, o)
        /\ UNCHANGED <<transactions, suspiciousActivity, inflight, nextReq,
                       succeeded, now, issued, last, boards, history,
                       requestCounts, admitted>>

TutorialAnswer(answers, writes, observed) ==
    \E userId \in DOMAIN users, answerIndex \in answers, w \in writes :
        /\ LET o == TutorialAnswerSave(users, suspiciousActivity, disk,
                                       userId, answerIndex, w)
           IN  /\ users' = o.users
               /\ disk' = o.disk
               /\ Observe(observed, "tutorial", userId, answerIndex, w, o)
        /\ UNCHANGED <<transactions, suspiciousActivity, inflight, nextReq,
                       succeeded, now, issued, last, boards,
                       history, activeSessions, requestCounts, admitted>>

UiComplete(writes) ==
    \E userId \in DOMAIN users, w \in writes :
        /\ LET o == UiCompleteSave(users, suspiciousActivity, disk, userId, w)
           IN  /\ users' = o.users
               /\ disk' = o.disk
               /\ Observe(TRUE, "ui-complete", userId, "", w, o)
        /\ UNCHANGED <<transactions, suspiciousActivity, inflight, nextReq,
                       succeeded, now, issued, last, boards,
                       history, activeSessions, requestCounts, admitted>>

\* The process stops and starts again: the stores are declared anew and
\* loadData() runs; the requests suspended at a fetch are lost.  The
\* admissions on record are those of the running process.
Restart ==
    /\ users' = LoadData(disk).users
    /\ transactions' = LoadData(disk).transactions
    /\ suspiciousActivity' = [k \in {} |-> k]
    /\ inflight' = [r \in {} |-> r]
    /\ reply' = Reply("restart", "", "", FALSE, 0, "")
    /\ boards' = [b \in {} |-> b]
    /\ activeSessions' = [k \in {} |-> k]
    /\ requestCounts' = [k \in {} |-> k]
    /\ admitted' = [k \in {} |-> k]
    /\ UNCHANGED <<nextReq, succeeded, now, disk, issued, last, history>>

\* The admissions with one more of ip at time t; of the earlier ones, those
\* less than RateWindow milliseconds before t are kept.
Admit(adm, ip, t) ==
    [k \in DOMAIN adm \cup {ip} |->
        IF k = ip
        THEN Append(IF ip \in DOMAIN adm
                    THEN SelectSeq(adm[ip], LAMBDA a : a > t - RateWindow)
                    ELSE <<>>, t)
        ELSE adm[k]]

\* GET /api/portfolio after the middleware: the status and the error.
PortfolioView(us, userId) ==
    IF userId \notin DOMAIN us
    THEN [status |-> 404, error |-> "User not found"]
    ELSE [status |-> 200, error |-> ""]

\* A request for GET /api/portfolio from ip with the token: rateLimit, then
\* validateSession, then the view.  An ip has at most limit requests in its
\* window.
Portfolio(ips, tokens, limit) ==
    \E ip \in ips, token \in tokens :
        LET l == RateLimit(requestCounts, suspiciousActivity, ip,
                           "/api/portfolio", now)
            v == ValidateSession(activeSessions, users, token, now)
            view == PortfolioView(users, v.userId)
        IN
        /\ Len(l.counts[ip]) <= limit
        /\ requestCounts' = l.counts
        /\ suspiciousActivity' = l.log
        /\ IF l.status = 429
           THEN /\ reply' = Reply("portfolio", ip, token, FALSE, l.status,
                                  l.error)
                /\ UNCHANGED <<activeSessions, admitted>>
           ELSE /\ admitted' = Admit(admitted, ip, now)
                /\ activeSessions' = v.sessions
                /\ reply' = IF v.status # 200
                            THEN Reply("portfolio", ip, token, FALSE, v.status,
                                       v.error)
                            ELSE Reply("portfolio", ip, token, FALSE,
                                       view.status, view.error)
        /\ UNCHANGED <<users, transactions, inflight, nextReq, succeeded, now,
                       disk, issued, last, boards, history>>

\* Date.now() moves on to one of the times.
Advance(times) ==
    \E t \in times :
        /\ t > now
        /\ now' = t
        /\ UNCHANGED <<users, transactions, suspiciousActivity, inflight,
                       nextReq, succeeded, disk, issued, reply, last, boards,
                       history, activeSessions, requestCounts, admitted>>

\* A buy or sell request arrives with a valid session of userId: it is
\* answered at once when symbol or quantity is missing, and otherwise
\* suspends at its price fetch.
Arrive(kind, userId, symbol, quantity) ==
    LET r == nextReq + 1 IN
    /\ nextReq' = r
    /\ IF symbol = "" \/ Falsy(quantity)
       THEN /\ inflight' = inflight
            /\ last' = Answered(r, NoAnswer, NotWritten, 400,
                                "Symbol and quantity required")
       ELSE /\ inflight' = [k \in DOMAIN inflight \cup {r} |->
                               IF k = r
                               THEN Request(kind, userId, symbol, quantity)
                               ELSE inflight[k]]
            /\ last' = last
    /\ UNCHANGED <<users, transactions, suspiciousActivity, succeeded, now,
                   disk, issued, reply, boards, history, activeSessions,
                   requestCounts, admitted>>

BuyArrive(symbols, quantities, limit, concurrent) ==
    \E userId \in DOMAIN users, symbol \in symbols, quantity \in quantities :
        /\ nextReq < limit
        /\ Cardinality(DOMAIN inflight) < concurrent
        /\ Arrive("buy", userId, symbol, quantity)

SellArrive(symbols, quantities, limit, concurrent) ==
    \E userId \in DOMAIN users, symbol \in symbols, quantity \in quantities :
        /\ nextReq < limit
        /\ Cardinality(DOMAIN inflight) < concurrent
        /\ Arrive("sell", userId, symbol, quantity)

\* A request as it stands after validateSession: the token it presented and
\* the req.userId it was given.
TokenRequest(kind, token, userId, symbol, quantity) ==
    [kind |-> kind, token |-> token, userId |-> userId, symbol |-> symbol,
     quantity |-> quantity]

\* A buy or sell request arrives with the token: validateSession answers
\* 401 or gives it a user; then it is answered at once when symbol or
\* quantity is missing, and otherwise suspends at its price fetch.
Authenticated(kind, token, symbol, quantity) ==
    LET r == nextReq + 1
        v == ValidateSession(activeSessions, users, token, now)
    IN
    /\ nextReq' = r
    /\ activeSessions' = v.sessions
    /\ IF v.status # 200
       THEN /\ inflight' = inflight
            /\ last' = Answered(r, NoAnswer, NotWritten, v.status, v.error)
       ELSE IF symbol = "" \/ Falsy(quantity)
       THEN /\ inflight' = inflight
            /\ last' = Answered(r, NoAnswer, NotWritten, 400,
                                "Symbol and quantity required")
       ELSE /\ inflight' = [k \in DOMAIN inflight \cup {r} |->
                               IF k = r
                               THEN TokenRequest(kind, token, v.userId, symbol,
                                                 quantity)
                               ELSE inflight[k]]
            /\ last' = last
    /\ UNCHANGED <<users, transactions, suspiciousActivity, succeeded, now,
                   disk, issued, reply, boards, history, requestCounts,
                   admitted>>

BuyRequest(tokens, symbols, quantities, limit, concurrent) ==
    \E token \in tokens, symbol \in symbols, quantity \in quantities :
        /\ nextReq < limit
        /\ Cardinality(DOMAIN inflight) < concurrent
        /\ Authenticated("buy", token, symbol, quantity)

SellRequest(tokens, symbols, quantities, limit, concurrent) ==
    \E token \in tokens, symbol \in symbols, quantity \in quantities :
        /\ nextReq < limit
        /\ Cardinality(DOMAIN inflight) < concurrent
        /\ Authenticated("sell", token, symbol, quantity)

\* Mutant: the handler answers and stays suspended.
Resume_StaysSuspended(r, gw, w, o) ==
    /\ users' = o.users
    /\ transactions' = o.transactions
    /\ suspiciousActivity' = o.log
    /\ disk' = o.disk
    /\ inflight' = inflight
    /\ last' = Answered(r, gw, IF o.status = 200 THEN w ELSE NotWritten,
                        o.status, o.error)
    /\ succeeded' = IF o.status = 200 THEN succeeded + 1 ELSE succeeded
    /\ UNCHANGED <<nextReq, now, issued, reply, boards, history,
                   activeSessions, requestCounts, admitted>>

\* The fetch of request r settles with the answer gw and the handler runs
\* to its response.
Resume(r, gw, w, o) ==
    /\ users' = o.users
    /\ transactions' = o.transactions
    /\ suspiciousActivity' = o.log
    /\ disk' = o.disk
    /\ inflight' = [k \in DOMAIN inflight \ {r} |-> inflight[k]]
    /\ last' = Answered(r, gw, IF o.status = 200 THEN w ELSE NotWritten,
                        o.status, o.error)
    /\ succeeded' = IF o.status = 200 THEN succeeded + 1 ELSE succeeded
    /\ UNCHANGED <<nextReq, now, issued, reply, boards, history,
                   activeSessions, requestCounts, admitted>>

\* The outcomes of the two writes of a trade.
WriteOutcomes(writes) == [users : writes, transactions : writes]

BuyResume(answers, writes) ==
    \E r \in DOMAIN inflight, gw \in answers, w \in WriteOutcomes(writes) :
        /\ inflight[r].kind = "buy"
        /\ Resume(r, gw, w, BuySettle(users, transactions, suspiciousActivity,
                                   disk, inflight[r], gw, now, w))

SellResume(answers, writes) ==
    \E r \in DOMAIN inflight, gw \in answers, w \in WriteOutcomes(writes) :
        /\ inflight[r].kind = "sell"
        /\ Resume(r, gw, w, SellSettle(users, transactions, suspiciousActivity,
                                    disk, inflight[r], gw, now, w))

\* GET /api/transactions with a valid session of userId.
Transactions ==
    \E userId \in DOMAIN users :
        /\ history' = Listing(userId, History(transactions, userId))
        /\ UNCHANGED <<users, transactions, suspiciousActivity, inflight,
                       nextReq, succeeded, now, disk, issued, reply, boards,
                       last,
                       activeSessions, requestCounts, admitted>>

\* GET /api/transactions with the token: validateSession, then the history
\* of the user it gives.
TransactionsRequest(tokens) ==
    \E token \in tokens :
        LET v == ValidateSession(activeSessions, users, token, now)
            read == ReadHistory(transactions, v.userId)
        IN
        /\ activeSessions' = v.sessions
        /\ history' = IF v.status = 200 THEN Listing(v.userId, read.records)
                      ELSE NoHistory
        /\ transactions' = IF v.status = 200 THEN read.transactions
                           ELSE transactions
        /\ UNCHANGED <<users, suspiciousActivity, inflight, nextReq,
                       succeeded, now, disk, issued, reply, boards, last,
                       requestCounts, admitted>>

\* The computation b goes on as number id: it responds, or suspends at the
\* fetch of one of the symbols it may visit next (the order in which the
\* holdings were inserted is not kept by the model).
LeaderboardGoesOn(id, b) ==
    /\ \/ /\ b.done
          /\ boards' = [k \in DOMAIN boards \cup {id} |->
                            IF k = id THEN b ELSE boards[k]]
       \/ /\ ~b.done
          /\ \E symbol \in Visitable(users, b) :
                boards' = [k \in DOMAIN boards \cup {id} |->
                              IF k = id THEN Suspend(b, symbol) ELSE boards[k]]
    /\ UNCHANGED <<users, transactions, suspiciousActivity, inflight,
                   nextReq, succeeded, now, disk, issued, reply, history,
                   last,
                   activeSessions, requestCounts, admitted>>

\* GET /api/leaderboard arrives; limit bounds the computations.
LeaderboardArrive(limit) ==
    /\ Cardinality(DOMAIN boards) < limit
    /\ LeaderboardGoesOn(Cardinality(DOMAIN boards) + 1,
                         LeaderboardAdvance(users, NewBoard(users)))

\* The fetch a leaderboard computation awaits settles.
LeaderboardResume(answers) ==
    \E id \in DOMAIN boards, gw \in answers :
        /\ ~boards[id].done
        /\ LeaderboardGoesOn(id,
               LeaderboardAdvance(users,
                   LeaderboardFetched(users, boards[id], gw)))

Tick(max) ==
    \E t \in TimePoints(max) :
        /\ t > now
        /\ now' = t
        /\ UNCHANGED <<users, transactions, suspiciousActivity, inflight,
                       nextReq, succeeded, disk, issued, reply, last, boards,
                       history, activeSessions, requestCounts, admitted>>

\* The file writes all succeed.
WritesSucceed == {TRUE}

(***************************************************************************)
(* Spec: one user trading two symbols in quantities 5 and 10 at the prices *)
(* 100 and 200, one request at a time.                                     *)
(***************************************************************************)
Usernames == {"ann"}
Passwords == {"secret"}
Answers == {1, 2}
Symbols == {"X", "Y"}
Quantities == {JInt(10), JInt(5)}
GatewayAnswers == {Price(100), Price(200)}

Next ==
    \/ Register(Usernames, Passwords, MaxLogins, WritesSucceed, FALSE)
    \/ TutorialAnswer(Answers, WritesSucceed, FALSE)
    \/ BuyArrive(Symbols, Quantities, MaxRequests, 1)
    \/ SellArrive(Symbols, Quantities, MaxRequests, 1)
    \/ BuyResume(GatewayAnswers, WritesSucceed)
    \/ SellResume(GatewayAnswers, WritesSucceed)
    \/ Tick(MaxTime)

Spec == Init /\ [][Next]_vars

(***************************************************************************)
(* SpecReject: one user and one symbol, with the inputs that are refused:  *)
(* a non-integer quantity, a failed fetch, a price field that is not a     *)
(* number, and the price 20000, at which a buy of 5 costs exactly the      *)
(* award.  Up to MaxInflight requests are suspended at a time.             *)
(***************************************************************************)
RejectSymbols == {"X"}
RejectQuantities == {JInt(10), JInt(5), JFrac(1)}
RejectAnswers == {Price(100), Price(20000), NoAnswer,
                  [ok |-> TRUE, price |-> JStr]}

NextReject ==
    \/ Register(Usernames, Passwords, MaxLogins, WritesSucceed, FALSE)
    \/ TutorialAnswer(Answers, WritesSucceed, FALSE)
    \/ BuyArrive(RejectSymbols, RejectQuantities, MaxRequests, MaxInflight)
    \/ SellArrive(RejectSymbols, RejectQuantities, MaxRequests, MaxInflight)
    \/ BuyResume(RejectAnswers, WritesSucceed)
    \/ SellResume(RejectAnswers, WritesSucceed)

SpecReject == Init /\ [][NextReject]_vars

(***************************************************************************)
(* SpecRapid: rapid trading.  The server starts (loadData) on a users file *)
(* that holds two users who registered and completed the tutorial in an    *)
(* earlier run, and no transactions file.  They buy one share at a time at *)
(* the price 100, one request at a time, while the clock moves across the  *)
(* 1000 ms window.                                                         *)
(***************************************************************************)
\* A user as the users file holds it after a registration at time t, with
\* the given session token, and the five correct answers.
Funded(userId, username, token, t) ==
    [PushSession(NewUser(userId, username, "secret", t), token, t) EXCEPT
        !.tutorialStep = Len(CorrectAnswers),
        !.tutorialCompleted = TRUE,
        !.cash = TutorialAward]

\* The stores and the files after loadData() has read a users file that
\* holds two such users, registered before the clock of the model starts.
LoadedUsers ==
    [id \in {UserIds[1], UserIds[2]} |->
        IF id = UserIds[1] THEN Funded(id, "ann", Tokens[1], -1)
        ELSE Funded(id, "bob", Tokens[2], -1)]

InitRapid ==
    /\ users = LoadedUsers
    /\ transactions = <<>>
    /\ suspiciousActivity = [k \in {} |-> k]
    /\ inflight = [r \in {} |-> r]
    /\ nextReq = 0
    /\ succeeded = 0
    /\ now = 0
    /\ disk = [users |-> File(TRUE, StringifyUsers(LoadedUsers)),
               transactions |-> NoFile]
    /\ issued = 2
    /\ reply = NoReply
    /\ boards = [b \in {} |-> b]
    /\ history = NoHistory
    /\ activeSessions = [k \in {} |-> k]
    /\ requestCounts = [k \in {} |-> k]
    /\ admitted = [k \in {} |-> k]
    /\ last = Answered(0, NoAnswer, NotWritten, 0, "")

NextRapid ==
    \/ BuyArrive({"X"}, {JInt(1)}, MaxRapidRequests, 1)
    \/ BuyResume({Price(100)}, WritesSucceed)
    \/ Tick(MaxRapidTime)

SpecRapid == InitRapid /\ [][NextRapid]_vars

(***************************************************************************)
(* SpecFetch: the gateway fails.  The two loaded users buy and sell 5      *)
(* shares of one symbol, up to two requests suspended at a time, and the   *)
(* gateway answers with the price 100, with an error, with no price, or    *)
(* with the price 0 or -1.                                                 *)
(***************************************************************************)
FetchAnswers ==
    {Price(100), NoAnswer, [ok |-> TRUE, price |-> JNone], Price(0), Price(-1)}

NextFetch ==
    \/ BuyArrive({"X"}, {JInt(5)}, MaxFetchRequests, 2)
    \/ SellArrive({"X"}, {JInt(5)}, MaxFetchRequests, 2)
    \/ BuyResume(FetchAnswers, WritesSucceed)
    \/ SellResume(FetchAnswers, WritesSucceed)

SpecFetch == InitRapid /\ [][NextFetch]_vars

(***************************************************************************)
(* SpecAccount: one user from registration on.  The user registers,        *)
(* answers the tutorial (rightly, wrongly, and after its completion) and   *)
(* trades 10 shares of one symbol at the prices 50 and 60, one request at  *)
(* a time; the responses of the account routes are observed.               *)
(***************************************************************************)
AccountAnswers == {Price(50), Price(60)}

NextAccount ==
    \/ Register(Usernames, Passwords, MaxLogins, WritesSucceed, TRUE)
    \/ TutorialAnswer(Answers, WritesSucceed, TRUE)
    \/ BuyArrive({"X"}, {JInt(10)}, MaxAccountRequests, 1)
    \/ SellArrive({"X"}, {JInt(10)}, MaxAccountRequests, 1)
    \/ BuyResume(AccountAnswers, WritesSucceed)
    \/ SellResume(AccountAnswers, WritesSucceed)
    \/ Tick(MaxTime)

SpecAccount == Init /\ [][NextAccount]_vars

(***************************************************************************)
(* SpecSaved: persistence when every file write succeeds.  One user        *)
(* registers, logs in and out, answers the tutorial, trades 10 shares of   *)
(* one symbol at the price 100, and the server restarts at any point.      *)
(***************************************************************************)
PersistIps == {"ip1"}
PersistPasswords == {"secret", "wrong!"}
PersistTokens == {Tokens[1], Tokens[2]}
PersistAnswers == {Price(100)}

NextSaved ==
    \/ Register(Usernames, Passwords, MaxLogins, WritesSucceed, TRUE)
    \/ Login(PersistIps, Usernames, PersistPasswords, MaxLogins, WritesSucceed)
    \/ Logout(PersistTokens, WritesSucceed)
    \/ TutorialAnswer(Answers, WritesSucceed, TRUE)
    \/ UiComplete(WritesSucceed)
    \/ BuyArrive({"X"}, {JInt(10)}, MaxPersistRequests, 1)
    \/ SellArrive({"X"}, {JInt(10)}, MaxPersistRequests, 1)
    \/ BuyResume(PersistAnswers, WritesSucceed)
    \/ SellResume(PersistAnswers, WritesSucceed)
    \/ Restart

SpecSaved == Init /\ [][NextSaved]_vars

(***************************************************************************)
(* SpecPersist: file writes that may fail.  The two loaded users trade 10  *)
(* shares of one symbol at the price 100, each write of a trade succeeds   *)
(* or fails, and the server restarts at any point.                         *)
(***************************************************************************)
WritesMayFail == {TRUE, FALSE}

NextPersist ==
    \/ BuyArrive({"X"}, {JInt(10)}, MaxFailRequests, 1)
    \/ SellArrive({"X"}, {JInt(10)}, MaxFailRequests, 1)
    \/ BuyResume(PersistAnswers, WritesMayFail)
    \/ SellResume(PersistAnswers, WritesMayFail)
    \/ Restart

SpecPersist == InitRapid /\ [][NextPersist]_vars

(***************************************************************************)
(* Vocabulary of the properties.  A step settles a request when it answers *)
(* a request that was suspended at its fetch: last' then holds its number, *)
(* the gateway's answer and the response, and inflight (unprimed) the      *)
(* request itself.                                                         *)
(***************************************************************************)
Settles == last'.id \in DOMAIN inflight

Settled == inflight[last'.id]

\* The fetch delivered a price that is a positive number.
GoodPrice(gw) == gw.ok /\ gw.price.t = "int" /\ gw.price.v > 0

\* A positive integer.
GoodQuantity(q) == q.t = "int" /\ q.v > 0

\* The number of ledger records of userId less than 1000 ms old at time t.
RecentCount(txs, userId, t) ==
    Cardinality({i \in DOMAIN txs :
                    txs[i].userId = userId /\ t - txs[i].timestamp < 1000})

\* The settled request gets past the fetch and the validator.
PassesValidator ==
    /\ GoodPrice(last'.fetched)
    /\ GoodQuantity(Settled.quantity)
    /\ RecentCount(transactions, Settled.userId, now) <= 5

Rejected(reason) == last'.status = 400 /\ last'.error = reason

LastRecord == transactions[Len(transactions)]

\* Sum of price * quantity over the records of userId of the given type.
RECURSIVE Amount(_, _, _)
Amount(txs, userId, type) ==
    IF txs = <<>> THEN 0
    ELSE LET x == Head(txs) IN
         (IF x.userId = userId /\ x.type = type
          THEN x.price * x.quantity ELSE 0)
         + Amount(Tail(txs), userId, type)

\* Sum of the quantities of the records of userId, symbol and type.
RECURSIVE Shares(_, _, _, _)
Shares(txs, userId, symbol, type) ==
    IF txs = <<>> THEN 0
    ELSE LET x == Head(txs) IN
         (IF x.userId = userId /\ x.symbol = symbol /\ x.type = type
          THEN x.quantity ELSE 0)
         + Shares(Tail(txs), userId, symbol, type)

HeldQuantity(user, symbol) ==
    IF symbol \in DOMAIN user.portfolio
    THEN user.portfolio[symbol].quantity ELSE 0

(***************************************************************************)
(* C1.  Every user's cash is >= 0 after every step, and a buy that reaches *)
(* the funds check with price * quantity above the user's cash is answered *)
(* 400 'Insufficient funds' and leaves that cash unchanged.                *)
(***************************************************************************)
C1_NonNegativeCash ==
    [][ /\ \A u \in DOMAIN users' : users'[u].cash >= 0
        /\ ( /\ Settles
             /\ Settled.kind = "buy"
             /\ PassesValidator
             /\ last'.fetched.price.v * Settled.quantity.v
                    > users[Settled.userId].cash )
           => /\ Rejected("Insufficient funds")
              /\ users'[Settled.userId].cash = users[Settled.userId].cash
      ]_vars

\* A buy was refused for lack of funds although the user has cash.
C1_Witness ==
    /\ last.error = "Insufficient funds"
    /\ \E u \in DOMAIN users : users[u].cash > 0

(***************************************************************************)
(* C2.  After every step every held symbol has a quantity > 0, and a sell  *)
(* of exactly the held quantity removes the symbol from the portfolio.     *)
(***************************************************************************)
C2_PositiveHoldings ==
    [][ /\ \A u \in DOMAIN users' :
             \A s \in DOMAIN users'[u].portfolio :
                users'[u].portfolio[s].quantity > 0
        /\ ( /\ Settles
             /\ Settled.kind = "sell"
             /\ PassesValidator
             /\ HeldQuantity(users[Settled.userId], Settled.symbol)
                    = Settled.quantity.v )
           => /\ last'.status = 200
              /\ Settled.symbol \notin DOMAIN users'[Settled.userId].portfolio
      ]_vars

\* A sell has just exhausted a position while another sell of the same
\* user is still suspended at its fetch.
C2_Witness ==
    /\ last.status = 200
    /\ transactions # <<>>
    /\ LastRecord.type = "SELL"
    /\ LastRecord.symbol \notin DOMAIN users[LastRecord.userId].portfolio
    /\ \E r \in DOMAIN inflight :
          /\ inflight[r].kind = "sell"
          /\ inflight[r].userId = LastRecord.userId
          /\ inflight[r].symbol = LastRecord.symbol

(***************************************************************************)
(* C3.  In every state (each is a point between two synchronous handler    *)
(* segments) the balances reconcile with the ledger: cash is the award (if *)
(* the tutorial is completed) minus the BUY amounts plus the SELL amounts, *)
(* and each symbol's held quantity is bought minus sold, the symbol being  *)
(* absent exactly when that is 0.                                          *)
(***************************************************************************)
C3_Reconciled ==
    \A u \in DOMAIN users :
        /\ users[u].cash =
              (IF users[u].tutorialCompleted THEN 100000 ELSE 0)
              - Amount(transactions, u, "BUY") + Amount(transactions, u, "SELL")
        /\ \A s \in DOMAIN users[u].portfolio
                    \cup {transactions[i].symbol : i \in DOMAIN transactions} :
              LET net == Shares(transactions, u, s, "BUY")
                         - Shares(transactions, u, s, "SELL")
              IN  /\ HeldQuantity(users[u], s) = net
                  /\ (s \in DOMAIN users[u].portfolio) <=> (net # 0)

\* A user has bought and sold, with a request still in flight.
C3_Witness ==
    /\ \E i, j \in DOMAIN transactions :
          /\ transactions[i].type = "BUY"
          /\ transactions[j].type = "SELL"
    /\ DOMAIN inflight # {}

(***************************************************************************)
(* C4.  A step that answers a buy or sell with success appends exactly one *)
(* record, of the request's type, user, symbol and quantity, whose price   *)
(* is the fetched price, and moves the cash by that price times the        *)
(* quantity; every other step leaves the ledger as it is; so the ledger is *)
(* as long as the number of successful trades.                             *)
(***************************************************************************)
C4_OneRecordPerTrade ==
    [][ /\ IF Settles /\ last'.status = 200
           THEN LET q == Settled.quantity.v
                    p == last'.fetched.price.v
                    u == Settled.userId
                IN  /\ transactions' = Append(transactions,
                          [userId |-> u,
                           type |-> IF Settled.kind = "buy" THEN "BUY" ELSE "SELL",
                           symbol |-> Settled.symbol, quantity |-> q,
                           price |-> p, timestamp |-> now])
                    /\ users'[u].cash - users[u].cash =
                          IF Settled.kind = "buy" THEN 0 - p * q ELSE p * q
           ELSE transactions' = transactions
        /\ Len(transactions') = succeeded'
      ]_vars

\* A buy and a sell have settled and a later request was refused.
C4_Witness ==
    /\ Len(transactions) = 2
    /\ transactions[1].type = "BUY"
    /\ transactions[2].type = "SELL"
    /\ last.status # 200
    /\ last.id = 3

(***************************************************************************)
(* C5.  A successful buy of q shares at the fetched price p, on a holding  *)
(* (Q, A) taken as (0, 0) when the symbol is not held, leaves the holding  *)
(* (Q + q, (A*Q + p*q) / (Q + q)) and debits the cash by exactly p*q; and  *)
(* when the ledger is a buy of 10 at 100 followed by a buy of 10 at 200 of *)
(* the same symbol, the holding is 20 shares at an average of 150.         *)
(***************************************************************************)
C5_CostBasis ==
    [][ /\ (Settles /\ Settled.kind = "buy" /\ last'.status = 200) =>
             LET u == Settled.userId
                 s == Settled.symbol
                 q == Settled.quantity.v
                 p == last'.fetched.price.v
                 Q == HeldQuantity(users[u], s)
                 A == IF s \in DOMAIN users[u].portfolio
                      THEN users[u].portfolio[s].avgPrice ELSE Whole(0)
             IN  /\ s \in DOMAIN users'[u].portfolio
                 /\ users'[u].portfolio[s].quantity = Q + q
                 \* avgPrice' = (A*Q + p*q) / (Q + q), cross-multiplied
                 /\ LET a == users'[u].portfolio[s].avgPrice IN
                     /\ a.d > 0
                     /\ a.n * (A.d * (Q + q)) = (A.n * Q + p * q * A.d) * a.d
                 /\ users'[u].cash = users[u].cash - p * q
        /\ ( /\ Len(transactions') = 2
             /\ \A i \in 1..2 : /\ transactions'[i].type = "BUY"
                                 /\ transactions'[i].symbol = "X"
                                 /\ transactions'[i].quantity = 10
             /\ transactions'[1].price = 100
             /\ transactions'[2].price = 200 )
           => users'[transactions'[1].userId].portfolio["X"]
                 = [quantity |-> 20, avgPrice |-> Whole(150)]
      ]_vars

\* 10 bought at 100, then 10 at 200: 20 are held at an average of 150.
C5_Witness ==
    /\ Len(transactions) = 2
    /\ transactions[1].type = "BUY" /\ transactions[2].type = "BUY"
    /\ transactions[1].symbol = "X" /\ transactions[2].symbol = "X"
    /\ transactions[1].quantity = 10 /\ transactions[2].quantity = 10
    /\ transactions[1].price = 100 /\ transactions[2].price = 200
    /\ users[transactions[1].userId].portfolio["X"].quantity = 20
    /\ users[transactions[1].userId].portfolio["X"].avgPrice = Whole(150)

(***************************************************************************)
(* C6.  A successful sell of q shares from a holding (Q, A) with q < Q     *)
(* leaves the holding (Q - q, A), credits the cash by exactly price * q,   *)
(* and leaves every other symbol's holding as it was.                      *)
(***************************************************************************)
C6_SellKeepsAverage ==
    [][ ( /\ Settles
          /\ Settled.kind = "sell"
          /\ last'.status = 200
          /\ Settled.quantity.v
                < HeldQuantity(users[Settled.userId], Settled.symbol) )
        => LET u == Settled.userId
               s == Settled.symbol
               q == Settled.quantity.v
               p == last'.fetched.price.v
           IN  /\ DOMAIN users'[u].portfolio = DOMAIN users[u].portfolio
               /\ users'[u].portfolio[s].avgPrice = users[u].portfolio[s].avgPrice
               /\ users'[u].portfolio[s].quantity
                     = users[u].portfolio[s].quantity - q
               /\ \A o \in DOMAIN users[u].portfolio \ {s} :
                     users'[u].portfolio[o] = users[u].portfolio[o]
               /\ users'[u].cash = users[u].cash + p * q
      ]_vars

\* 5 shares were just sold out of 20 held at 150: 15 are held at 150.
C6_Witness ==
    /\ Len(transactions) = 3
    /\ LastRecord.type = "SELL"
    /\ LastRecord.quantity = 5
    /\ LET pf == users[LastRecord.userId].portfolio IN
       /\ LastRecord.symbol \in DOMAIN pf
       /\ pf[LastRecord.symbol] = [quantity |-> 15, avgPrice |-> Whole(150)]

\* A partial sell settled while another symbol was held.
C6_OtherSymbolHeld ==
    /\ transactions # <<>>
    /\ LastRecord.type = "SELL"
    /\ LastRecord.symbol \in DOMAIN users[LastRecord.userId].portfolio
    /\ Cardinality(DOMAIN users[LastRecord.userId].portfolio) = 2

(***************************************************************************)
(* C7.  A sell that reaches the shares check for a symbol the user does    *)
(* not hold, or for more shares than the user holds at that time, is       *)
(* answered 400 'Insufficient shares' and leaves the user's cash and       *)
(* portfolio and the ledger as they were.                                  *)
(***************************************************************************)
C7_InsufficientShares ==
    [][ ( /\ Settles
          /\ Settled.kind = "sell"
          /\ PassesValidator
          /\ HeldQuantity(users[Settled.userId], Settled.symbol)
                < Settled.quantity.v )
        => /\ Rejected("Insufficient shares")
           /\ users'[Settled.userId].cash = users[Settled.userId].cash
           /\ users'[Settled.userId].portfolio = users[Settled.userId].portfolio
           /\ transactions' = transactions
      ]_vars

\* A sell of more shares than the user holds of a held symbol was refused.
C7_Witness ==
    /\ last.error = "Insufficient shares"
    /\ \E u \in DOMAIN users : DOMAIN users[u].portfolio # {}

(***************************************************************************)
(* C10.  A buy or sell whose fetch delivered a price and which the trade   *)
(* validator refuses is answered 400 with the validator's reason (the      *)
(* first of: unknown user, quantity not a positive integer, price not a    *)
(* positive number, more than 5 records in the last 1000 ms), and leaves   *)
(* users and the ledger unchanged.                                         *)
(***************************************************************************)
\* fetchStockPrice returned the gateway's price instead of throwing.
Delivered(gw) ==
    /\ gw.ok
    /\ gw.price.t # "none"
    /\ ~(gw.price.t = "int" /\ gw.price.v <= 0)

ValidatorReasons ==
    {"User not found", "Invalid quantity", "Invalid price", "Trading too quickly"}

ExpectedReason ==
    IF Settled.userId \notin DOMAIN users THEN "User not found"
    ELSE IF ~GoodQuantity(Settled.quantity) THEN "Invalid quantity"
    ELSE IF ~GoodPrice(last'.fetched) THEN "Invalid price"
    ELSE IF RecentCount(transactions, Settled.userId, now) > 5
    THEN "Trading too quickly"
    ELSE "ok"

ValidPaidBuy ==
    /\ Settles
    /\ Settled.kind = "buy"
    /\ GoodPrice(last'.fetched)
    /\ GoodQuantity(Settled.quantity)
    /\ last'.fetched.price.v * Settled.quantity.v <= users[Settled.userId].cash

\* C8 as stated: a valid buy that settles when the user already has 5
\* records less than 1000 ms old (the 6th of the window) is refused with
\* 'Trading too quickly' and records nothing.
C8_SixthRejected ==
    [][ (ValidPaidBuy /\ RecentCount(transactions, Settled.userId, now) = 5)
        => /\ Rejected("Trading too quickly")
           /\ transactions' = transactions
      ]_vars

\* C8 as amended: a valid buy that settles when the user has at most 5
\* records less than 1000 ms old succeeds and is recorded, so the first 6
\* of a window succeed; one that settles when the user has 6 (the 7th of
\* the window) is refused with 'Trading too quickly' and records nothing;
\* and no user ever has more than 6 records less than 1000 ms old.
C8_SeventhRejected ==
    [][ /\ ValidPaidBuy =>
             LET n == RecentCount(transactions, Settled.userId, now) IN
             /\ n <= 5 => /\ last'.status = 200
                          /\ Len(transactions') = Len(transactions) + 1
                          /\ transactions'[Len(transactions')].userId
                                = Settled.userId
             /\ n >= 6 => /\ Rejected("Trading too quickly")
                          /\ transactions' = transactions
        /\ \A u \in DOMAIN users' : RecentCount(transactions', u, now') <= 6
      ]_vars

\* Six buys of one user were recorded within less than 1000 ms and the
\* seventh was refused.
C8_Witness ==
    /\ last.error = "Trading too quickly"
    /\ \E u \in DOMAIN users :
          /\ Cardinality({i \in DOMAIN transactions :
                             transactions[i].userId = u}) = 6
          /\ \A i \in DOMAIN transactions :
                transactions[i].userId = u => now - transactions[i].timestamp < 1000

(***************************************************************************)
(* C9.  A request that passes the user, quantity and price checks is       *)
(* refused with 'Trading too quickly' exactly when the ledger holds more   *)
(* than 5 records of its user that are less than 1000 ms old (records of   *)
(* other users and records 1000 ms old or older do not count); the refusal *)
(* appends one event carrying that count under the user's RAPID_TRADING    *)
(* key, and otherwise the log is left as it is.                            *)
(***************************************************************************)
C9_RapidExactly ==
    [][ ( /\ Settles
          /\ Settled.userId \in DOMAIN users
          /\ GoodQuantity(Settled.quantity)
          /\ GoodPrice(last'.fetched) )
        => LET u == Settled.userId
               n == Cardinality({i \in DOMAIN transactions :
                        /\ transactions[i].userId = u
                        /\ now - transactions[i].timestamp < 1000})
               key == <<u, "RAPID_TRADING">>
               old == IF key \in DOMAIN suspiciousActivity
                      THEN suspiciousActivity[key] ELSE <<>>
           IN  /\ (last'.error = "Trading too quickly") <=> (n > 5)
               /\ IF n > 5
                  THEN /\ DOMAIN suspiciousActivity'
                            = DOMAIN suspiciousActivity \cup {key}
                       /\ suspiciousActivity'[key]
                            = Append(old, [timestamp |-> now,
                                           details |-> [count |-> n]])
                       /\ \A k \in DOMAIN suspiciousActivity \ {key} :
                            suspiciousActivity'[k] = suspiciousActivity[k]
                  ELSE suspiciousActivity' = suspiciousActivity
      ]_vars

\* A user's request was refused for its 6 recent records, logged with the
\* count 6, while the ledger also holds a record of another user that is
\* less than 1000 ms old.
C9_Witness ==
    /\ last.error = "Trading too quickly"
    /\ \E u \in DOMAIN users :
          /\ <<u, "RAPID_TRADING">> \in DOMAIN suspiciousActivity
          /\ suspiciousActivity[<<u, "RAPID_TRADING">>]
                = <<[timestamp |-> now, details |-> [count |-> 6]]>>
          /\ \E i \in DOMAIN transactions :
                /\ transactions[i].userId # u
                /\ now - transactions[i].timestamp < 1000

\* A user's request went through with 5 recent records of its own while
\* the ledger held 7 records, among them one of its own that is 1000 ms
\* old or older and one of another user.
C9_OthersNotCounted ==
    /\ last.status = 200
    /\ Len(transactions) = 8
    /\ \E i \in DOMAIN transactions :
          /\ transactions[i].userId = LastRecord.userId
          /\ now - transactions[i].timestamp >= 1000
    /\ \E i \in DOMAIN transactions :
          transactions[i].userId # LastRecord.userId

(***************************************************************************)
(* C11.  A buy or sell whose price fetch fails (the gateway answers with   *)
(* an error, or with a missing or non-positive price) is answered with the *)
(* status 500 and the fetch error; the request is then no longer waiting   *)
(* for a fetch and no fetch is started in its place (no retry); users, the *)
(* ledger and the files are unchanged.                                     *)
(***************************************************************************)
\* The gateway's answer carries no positive price.
FetchFails(gw) ==
    \/ ~gw.ok
    \/ gw.price.t = "none"
    \/ gw.price.t = "int" /\ gw.price.v <= 0

\* C11: a buy or sell whose fetch fails is answered with an error, starts
\* no other fetch and leaves users, ledger and files unchanged.
C11_FetchFailure ==
    [][ (Settles /\ FetchFails(last'.fetched)) =>
          /\ last'.status = 500
          /\ last'.error \in
                {"Error fetching X: Failed to fetch stock price",
                 "Error fetching X: Invalid stock price"}
          /\ DOMAIN inflight' = DOMAIN inflight \ {last'.id}
          /\ nextReq' = nextReq
          /\ users' = users
          /\ transactions' = transactions
          /\ disk' = disk
      ]_vars

\* A sell of held shares failed at its fetch on a non-positive price while
\* another request is still waiting for its own fetch.
C11_Witness ==
    /\ last.status = 500
    /\ last.fetched.ok
    /\ last.fetched.price.t = "int"
    /\ last.error = "Error fetching X: Invalid stock price"
    /\ \E u \in DOMAIN users : "X" \in DOMAIN users[u].portfolio
    /\ DOMAIN inflight # {}

(***************************************************************************)
(* C13.  A user's cash is 0 at registration and as long as fewer than 5    *)
(* lessons are answered; tutorialStep moves only by one, on the correct    *)
(* answer to the current lesson; the step from 4 to 5 sets the cash to     *)
(* 100000; a wrong answer changes nothing; once tutorialStep is 5 it stays *)
(* 5, an answer changes nothing, and the cash moves only when a trade      *)
(* settles with success.                                                   *)
(***************************************************************************)
\* The step may be the answer of a tutorial request of user u.
TutorialReply(u) == reply'.op = "tutorial" /\ reply'.who = u

\* C13: the cash is 0 until the last lesson is answered correctly, 100000
\* at that step, and no later answer changes tutorialStep or cash.
C13_AwardOnce ==
    [][ \A u \in DOMAIN users' :
          /\ users'[u].tutorialStep < 5 => users'[u].cash = 0
          /\ u \notin DOMAIN users =>
                users'[u].cash = 0 /\ users'[u].tutorialStep = 0
          /\ u \in DOMAIN users =>
                LET a == users[u]
                    b == users'[u]
                IN  /\ b.tutorialStep # a.tutorialStep =>
                          /\ TutorialReply(u)
                          /\ a.tutorialStep < 5
                          /\ reply'.arg = CorrectAnswers[a.tutorialStep + 1]
                          /\ b.tutorialStep = a.tutorialStep + 1
                    /\ (a.tutorialStep = 4 /\ b.tutorialStep = 5) =>
                          b.cash = 100000
                    /\ a.tutorialStep = 5 =>
                          /\ b.tutorialStep = 5
                          /\ b.cash # a.cash => (Settles /\ last'.status = 200)
                    /\ ( /\ reply' # reply
                         /\ TutorialReply(u)
                         /\ \/ a.tutorialStep = 5
                            \/ reply'.arg # CorrectAnswers[a.tutorialStep + 1] )
                       => users' = users
      ]_vars

\* A user who completed the tutorial and has traded since (the cash is no
\* longer the award) got the answer to a tutorial request with the option
\* 2, which is not the one that completes the tutorial.
C13_Witness ==
    /\ reply.op = "tutorial"
    /\ reply.arg = 2
    /\ reply.who \in DOMAIN users
    /\ users[reply.who].tutorialStep = 5
    /\ users[reply.who].cash # 100000
    /\ transactions # <<>>

(***************************************************************************)
(* C14.  The end-to-end scenario: a newly registered user has cash 0; the  *)
(* last correct tutorial answer sets the cash to 100000; from there a buy  *)
(* of 10 X at the fetched price 50 gives cash 99500, the portfolio         *)
(* {X: 10 shares at 50} and one BUY record; from there a sell of 10 X at   *)
(* the fetched price 60 gives cash 100100, an empty portfolio and a SELL   *)
(* record as the second of 2 records.                                      *)
(***************************************************************************)
\* The settled request is kind 10 X at the fetched price p.
ScenarioTrade(kind, p) ==
    /\ Settles
    /\ Settled.kind = kind
    /\ Settled.symbol = "X"
    /\ Settled.quantity = [t |-> "int", v |-> 10]
    /\ last'.fetched = [ok |-> TRUE, price |-> [t |-> "int", v |-> p]]

\* C14: register, tutorial, buy 10 X at 50, sell 10 X at 60 give the cash
\* 0, 100000, 99500, 100100, the holding 10 at 50 and then none, and the
\* records BUY then SELL.
C14_Scenario ==
    [][ /\ \A u \in DOMAIN users' \ DOMAIN users : users'[u].cash = 0
        /\ \A u \in DOMAIN users :
              (users[u].tutorialStep = 4 /\ users'[u].tutorialStep = 5)
              => users'[u].cash = 100000
        /\ \A u \in DOMAIN users :
              ( /\ ScenarioTrade("buy", 50)
                /\ Settled.userId = u
                /\ users[u].cash = 100000
                /\ DOMAIN users[u].portfolio = {}
                /\ transactions = <<>> )
              => /\ users'[u].cash = 99500
                 /\ DOMAIN users'[u].portfolio = {"X"}
                 /\ users'[u].portfolio["X"] =
                       [quantity |-> 10, avgPrice |-> [n |-> 50, d |-> 1]]
                 /\ Len(transactions') = 1
                 /\ transactions'[1].type = "BUY"
        /\ \A u \in DOMAIN users :
              ( /\ ScenarioTrade("sell", 60)
                /\ Settled.userId = u
                /\ users[u].cash = 99500
                /\ DOMAIN users[u].portfolio = {"X"}
                /\ users[u].portfolio["X"].quantity = 10
                /\ Len(transactions) = 1 )
              => /\ users'[u].cash = 100100
                 /\ DOMAIN users'[u].portfolio = {}
                 /\ Len(transactions') = 2
                 /\ transactions'[1] = transactions[1]
                 /\ transactions'[2].type = "SELL"
      ]_vars

\* The scenario has run to its end.
C14_Witness ==
    /\ Len(transactions) = 2
    /\ transactions[1].type = "BUY" /\ transactions[1].price = 50
    /\ transactions[2].type = "SELL" /\ transactions[2].price = 60
    /\ \E u \in DOMAIN users :
          /\ users[u].cash = 100100
          /\ DOMAIN users[u].portfolio = {}
          /\ transactions[1].userId = u
          /\ transactions[2].userId = u

(***************************************************************************)
(* C15.  The ledger is in the order of the settlements, not of the         *)
(* arrivals: a request that settles with success has its record put at the *)
(* end of the ledger, behind every record already there, also when a       *)
(* request that arrived before it is still suspended at its fetch; the     *)
(* record of that earlier request follows when its own fetch resolves.  No *)
(* arrival touches the ledger.                                             *)
(***************************************************************************)
\* A request that arrived before the settled one is still suspended.
OvertakesEarlier == \E a \in DOMAIN inflight : a < last'.id

\* C15: the record of a settling request goes behind every record in the
\* ledger, ahead of the records of requests that arrived before it and are
\* still suspended.
C15_SettlementOrder ==
    [][ /\ (Settles /\ last'.status = 200) =>
              /\ Len(transactions') = Len(transactions) + 1
              /\ \A i \in DOMAIN transactions : transactions'[i] = transactions[i]
              /\ LET x == transactions'[Len(transactions')] IN
                    /\ x.userId = Settled.userId
                    /\ x.symbol = Settled.symbol
                    /\ x.quantity = Settled.quantity.v
                    /\ x.type = IF Settled.kind = "buy" THEN "BUY" ELSE "SELL"
              /\ OvertakesEarlier =>
                    \A a \in DOMAIN inflight :
                        a < last'.id => a \in DOMAIN inflight'
        /\ nextReq' # nextReq => transactions' = transactions
      ]_vars

\* Of two requests, the second to arrive settled first and the first to
\* arrive settled last, both with success: the ledger holds the record of
\* the second request before that of the first.
C15_Witness ==
    /\ nextReq = 2
    /\ succeeded = 2
    /\ last.id = 1
    /\ last.status = 200
    /\ Len(transactions) = 2
    /\ transactions[1].quantity # transactions[2].quantity

(***************************************************************************)
(* Vocabulary of the persistence properties.                               *)
(***************************************************************************)
\* What is in memory.
Memory(us, txs) == [users |-> us, transactions |-> txs]

\* Both files exist and hold what is in memory, so that a restart would
\* load exactly that.
OnDisk(d, us, txs) ==
    /\ d.users.exists
    /\ d.transactions.exists
    /\ LoadData(d) = Memory(us, txs)

\* The step answers a buy or sell with success.
TradeSucceeds == Settles /\ last'.status = 200

(***************************************************************************)
(* C16.  When a buy or sell answers with success and both of its writes    *)
(* succeeded, then at the response the users file holds the users map and  *)
(* the transactions file holds the ledger, the new record included,        *)
(* whatever the files held before.                                         *)
(***************************************************************************)
C16_SavedBeforeResponse ==
    [][ ( /\ TradeSucceeds
          /\ last'.written.users
          /\ last'.written.transactions )
        => /\ OnDisk(disk', users', transactions')
           /\ Len(transactions') = Len(transactions) + 1
           /\ Len(LoadData(disk').transactions) = Len(transactions')
      ]_vars

\* The third trade of a run was saved whole.
C16_Witness ==
    /\ last.status = 200
    /\ last.written.users /\ last.written.transactions
    /\ Len(transactions) = 3
    /\ OnDisk(disk, users, transactions)

(***************************************************************************)
(* C17.  After each operation that changes users or the ledger and whose   *)
(* writes succeed (registration, login, logout, tutorial answer, buy,      *)
(* sell), both files hold what is in memory.                               *)
(***************************************************************************)
\* The step is the answer of an account route that changed the users map.
AccountMutation ==
    /\ reply' # reply
    /\ reply'.op \in {"register", "login", "logout", "tutorial"}
    /\ reply'.status = 200
    /\ users' # users

\* C17 as stated: after a registration, login, logout, tutorial answer, buy
\* or sell that succeeds with its writes succeeding, loading the files gives
\* the users and the ledger of the memory.
C17_FilesMatchMemory ==
    [][ (TradeSucceeds \/ AccountMutation)
        => LoadData(disk') = Memory(users', transactions')
      ]_vars

\* C17 for every route but registration.
C17_ExceptRegistration ==
    [][ (TradeSucceeds \/ (AccountMutation /\ reply'.op # "register"))
        => LoadData(disk') = Memory(users', transactions')
      ]_vars

\* C17 at a registration: the users file holds the new user without the
\* session token that the memory holds.
C17_RegistrationGap ==
    [][ (AccountMutation /\ reply'.op = "register")
        => \E u \in DOMAIN users' \ DOMAIN users :
              /\ users'[u].persistentSessions # <<>>
              /\ LoadData(disk').users =
                    [users' EXCEPT ![u].persistentSessions = <<>>]
      ]_vars

(***************************************************************************)
(* C18.  A file write that fails during a buy or sell.                     *)
(***************************************************************************)
\* The step answers a trade with success although a write of it failed.
FailedWrite ==
    /\ TradeSucceeds
    /\ ~(last'.written.users /\ last'.written.transactions)

\* The trade is in memory: the cash has moved and the record is appended.
TradeKept ==
    /\ users'[Settled.userId].cash # users[Settled.userId].cash
    /\ users'[Settled.userId].portfolio # users[Settled.userId].portfolio
    /\ Len(transactions') = Len(transactions) + 1

RegisterNames == {"ann", "Ann", "ANN", "bob", "Bob", "cat", "An", ""}
RegisterPasswords == {"secret", "abc", ""}

NextRegister ==
    \/ Register(RegisterNames, RegisterPasswords, MaxLogins, WritesSucceed,
                TRUE)
    \/ Tick(MaxTime)

SpecRegister == Init /\ [][NextRegister]_vars

\* The two names are equal ignoring case.
SameIgnoringCase(a, b) == ToLowerCase(a) = ToLowerCase(b)

\* No two users have names that are equal ignoring case.
UniqueIgnoringCase(us) ==
    \A a, b \in DOMAIN us :
        SameIgnoringCase(us[a].username, us[b].username) => a = b

\* The step answers a registration under a name that a user already has,
\* ignoring case.
DuplicateRegistration ==
    /\ now' = now
    /\ reply'.op = "register"
    /\ \E id \in DOMAIN users :
          SameIgnoringCase(users[id].username, reply'.who)

\* C20 as stated: no two users have names equal ignoring case, and a
\* registration under a name that a user already has, ignoring case, is
\* rejected with 'Username already exists' and leaves the users unchanged.
C20_DuplicateRejected ==
    [][ /\ UniqueIgnoringCase(users')
        /\ DuplicateRegistration =>
              /\ reply'.status = 409
              /\ reply'.error = "Username already exists"
              /\ users' = users
      ]_vars

\* C20 as amended: no two users have names equal ignoring case; a
\* registration under a name that a user already has, ignoring case, is
\* rejected and leaves the users unchanged; the error is 'Username already
\* exists' when the password has at least 6 characters, and is the error
\* of the password otherwise.
C20_UniqueUsernames ==
    [][ /\ UniqueIgnoringCase(users')
        /\ DuplicateRegistration =>
              /\ users' = users
              /\ reply'.status # 200
              /\ Len(reply'.arg) >= 6 =>
                    /\ reply'.status = 409
                    /\ reply'.error = "Username already exists"
              /\ Len(reply'.arg) < 6 =>
                    /\ reply'.status = 400
                    /\ reply'.error \in
                          {"Username and password required",
                           "Password must be at least 6 characters"}
      ]_vars

\* A registration under a name that differs in case only from the name of
\* a user was rejected with 'Username already exists'.
C20_Witness ==
    /\ reply.op = "register"
    /\ reply.status = 409
    /\ reply.error = "Username already exists"
    /\ \E id \in DOMAIN users :
          /\ users[id].username # reply.who
          /\ SameIgnoringCase(users[id].username, reply.who)

(***************************************************************************)
(* SpecLedger: every route beside the trades.  The two loaded users buy    *)
(* and sell, log in and out, answer the tutorial, read their history and   *)
(* the leaderboard; a trade and the leaderboard computations may be        *)
(* suspended at once.                                                      *)
(***************************************************************************)
MaxLedgerRequests == 2
MaxBoards == 1
LedgerAnswers == {Price(100)}

NextLedger ==
    \/ BuyArrive({"X"}, {JInt(10)}, MaxLedgerRequests, 1)
    \/ SellArrive({"X"}, {JInt(10)}, MaxLedgerRequests, 1)
    \/ BuyResume({Price(100)}, WritesSucceed)
    \/ SellResume({Price(100)}, WritesSucceed)
    \/ Login({"ip1"}, {"ann"}, {"secret"}, MaxLogins + 1, WritesSucceed)
    \/ Logout({Tokens[1]}, WritesSucceed)
    \/ TutorialAnswer({1}, WritesSucceed, TRUE)
    \/ Transactions
    \/ LeaderboardArrive(MaxBoards)
    \/ LeaderboardResume(LedgerAnswers)

SpecLedger == InitRapid /\ [][NextLedger]_vars

\* seq has the sequence before as a prefix.
HasPrefix(seq, before) ==
    /\ Len(before) <= Len(seq)
    /\ SubSeq(seq, 1, Len(before)) = before

\* C12.  Across every step of buy, sell, history, leaderboard, login,
\* logout and tutorial, the ledger after the step has the ledger before the
\* step as a prefix: every earlier record is unchanged and at its position.
C12_AppendOnly ==
    [][HasPrefix(transactions', transactions)]_vars

\* A ledger of two records, of which the history of its first user, a
\* leaderboard computation that was suspended, a login and a tutorial
\* answer have been answered.
C12_Witness ==
    /\ Len(transactions) = 2
    /\ Len(history.records) = 2
    /\ history.records[1].type # history.records[2].type
    /\ \E id \in DOMAIN boards :
          /\ boards[id].done
          /\ \E i \in DOMAIN boards[id].response :
                boards[id].response[i].portfolioValue > 0
    /\ reply.op \in {"login", "logout", "tutorial"}

(***************************************************************************)
(* SpecSession: trades under session tokens.  The two loaded users hold    *)
(* the tokens they registered with, which validateSession finds in their   *)
(* persistent sessions; they log in for further tokens, and buy and sell   *)
(* 10 shares of one symbol under a token of theirs, under no token, or     *)
(* under a token that was never issued.                                    *)
(***************************************************************************)
MaxSessionRequests == 3
SessionTokens == {Tokens[1], Tokens[2], Tokens[3], "", "forged"}
SessionAnswers == {Price(100), NoAnswer}

NextSession ==
    \/ Login({"ip1"}, {"ann", "bob"}, {"secret"}, MaxLogins + 1, WritesSucceed)
    \/ BuyRequest(SessionTokens, {"X"}, {JInt(10)}, MaxSessionRequests,
                  MaxInflight)
    \/ SellRequest(SessionTokens, {"X"}, {JInt(10)}, MaxSessionRequests,
                   MaxInflight)
    \/ BuyResume(SessionAnswers, WritesSucceed)
    \/ SellResume(SessionAnswers, WritesSucceed)

SpecSession == InitRapid /\ [][NextSession]_vars

\* The users who hold the token in their persistent sessions: those it was
\* issued to (no token is taken back in SpecSession).
IssuedTo(us, token) ==
    {u \in DOMAIN us :
        \E i \in DOMAIN us[u].persistentSessions :
            us[u].persistentSessions[i].token = token}

\* Cash and portfolio of user u are the same after the step.
SameBalances(u) ==
    /\ users'[u].cash = users[u].cash
    /\ users'[u].portfolio = users[u].portfolio

\* The step is the arrival of a buy or sell request.
Arrives == nextReq' = nextReq + 1

\* C21.  A buy or sell request acts only on the user its token was issued
\* to: the arrival changes no cash and no portfolio, and suspends the request
\* under that user only; the settlement, whatever the outcome, leaves the
\* cash and the portfolio of every other user unchanged; a request without
\* a token or with a token that was not issued is never suspended.
C21_OnlyTokenOwner ==
    [][ /\ Arrives =>
              /\ \A u \in DOMAIN users : SameBalances(u)
              /\ DOMAIN users' = DOMAIN users
              /\ \A r \in DOMAIN inflight' \ DOMAIN inflight :
                    IssuedTo(users, inflight'[r].token) = {inflight'[r].userId}
        /\ Settles =>
              /\ DOMAIN users' = DOMAIN users
              /\ \A u \in DOMAIN users :
                    u \notin IssuedTo(users, Settled.token) => SameBalances(u)
              /\ Cardinality(IssuedTo(users, Settled.token)) = 1
      ]_vars

\* The second user's trade under the token of a login settled with success
\* while the first user held shares: only the second user's cash moved.
C21_Witness ==
    /\ last.status = 200
    /\ Len(transactions) >= 2
    /\ LastRecord.userId = UserIds[2]
    /\ transactions[1].userId = UserIds[1]
    /\ Tokens[3] \in DOMAIN activeSessions
    /\ activeSessions[Tokens[3]].userId = UserIds[2]
    /\ DOMAIN users[UserIds[1]].portfolio # {}

(***************************************************************************)
(* SpecValues: the values of a trade.  The two loaded users buy and sell   *)
(* one symbol, one request at a time, in quantities that are positive,     *)
(* zero, negative, fractional or a string, at prices the gateway gives as  *)
(* a positive, zero or negative number, as a string, or not at all.        *)
(***************************************************************************)
MaxValueRequests == 3
ValueQuantities == {JInt(10), JInt(0), JInt(-10), JFrac(1), JFrac(-1), JStr}
ValueAnswers == {Price(100), Price(0), Price(-100),
                 [ok |-> TRUE, price |-> JStr], NoAnswer}

NextValues ==
    \/ BuyArrive({"X"}, ValueQuantities, MaxValueRequests, 1)
    \/ SellArrive({"X"}, ValueQuantities, MaxValueRequests, 1)
    \/ BuyResume(ValueAnswers, WritesSucceed)
    \/ SellResume(ValueAnswers, WritesSucceed)

SpecValues == InitRapid /\ [][NextValues]_vars

\* C22.  Every record of the ledger has type BUY or SELL, a positive integer
\* quantity and a positive price, and a record is appended only for a
\* request whose quantity is a positive integer and whose fetched price is
\* a positive number, with these two values.
C22_RecordValues ==
    [][ /\ \A i \in DOMAIN transactions' :
              /\ transactions'[i].type \in {"BUY", "SELL"}
              /\ transactions'[i].quantity \in Nat \ {0}
              /\ transactions'[i].price > 0
        /\ Len(transactions') > Len(transactions) =>
              /\ Settles
              /\ GoodQuantity(Settled.quantity)
              /\ GoodPrice(last'.fetched)
              /\ transactions'[Len(transactions')].quantity = Settled.quantity.v
              /\ transactions'[Len(transactions')].price = last'.fetched.price.v
              /\ transactions'[Len(transactions')].type =
                    (IF Settled.kind = "buy" THEN "BUY" ELSE "SELL")
      ]_vars

\* A buy and a sell are on the ledger and the last request, of a negative
\* quantity, was refused.
C22_Witness ==
    /\ Len(transactions) = 2
    /\ transactions[1].type = "BUY"
    /\ transactions[2].type = "SELL"
    /\ nextReq = 3
    /\ last.id = 3
    /\ last.error = "Invalid quantity"

(***************************************************************************)
(* SpecRate: the rate limit.  One address sends requests without a token   *)
(* until two of them are refused; a second address sends a few; the clock  *)
(* stands at 0, one millisecond before the end of the window that starts   *)
(* at 0, or at its end.                                                    *)
(***************************************************************************)
MaxRateRequests == 102
MaxOtherRequests == 1
RateTimes == {0, RateWindow - 1, RateWindow}

NextRate ==
    \/ Portfolio({"ip1"}, {""}, MaxRateRequests)
    \/ Portfolio({"ip2"}, {""}, MaxOtherRequests)
    \/ Advance(RateTimes)

SpecRate == InitRapid /\ [][NextRate]_vars

\* The requests an address has on its record.
CountsOf(counts, ip) == IF ip \in DOMAIN counts THEN counts[ip] ELSE <<>>

\* The RATE_LIMIT_EXCEEDED events logged for an address.
Exceeded(log, ip) ==
    IF <<ip, "RATE_LIMIT_EXCEEDED">> \in DOMAIN log
    THEN log[<<ip, "RATE_LIMIT_EXCEEDED">>] ELSE <<>>

\* The step is a request from ip.
RequestFrom(ip) ==
    /\ requestCounts' # requestCounts
    /\ CountsOf(requestCounts', ip) # CountsOf(requestCounts, ip)

\* C23.  Per address at most RateMax requests are admitted within any window
\* of RateWindow milliseconds (admitted holds, at each admission, the
\* admissions of the address less than RateWindow milliseconds before it,
\* and a window with more than RateMax admissions would show at its last
\* admission); a request that has RateMax or more requests
\* of its address in the RateWindow milliseconds before it is answered 429
\* 'Too many requests' and logged as RATE_LIMIT_EXCEEDED, any other request
\* is admitted; the requests of one address change neither the record nor
\* the admissions of another.
C23_RateLimit ==
    [][ \A ip \in {"ip1", "ip2"} :
          /\ Len(CountsOf(admitted', ip)) <= RateMax
          /\ RequestFrom(ip) =>
                /\ \A other \in {"ip1", "ip2"} \ {ip} :
                      /\ CountsOf(requestCounts', other) =
                            CountsOf(requestCounts, other)
                      /\ CountsOf(admitted', other) = CountsOf(admitted, other)
                      /\ Exceeded(suspiciousActivity', other) =
                            Exceeded(suspiciousActivity, other)
                /\ reply'.who = ip
                /\ IF Len(SelectSeq(CountsOf(requestCounts, ip),
                                    LAMBDA time : now - time < RateWindow))
                        >= RateMax
                   THEN /\ reply'.status = 429
                        /\ reply'.error = "Too many requests"
                        /\ CountsOf(admitted', ip) = CountsOf(admitted, ip)
                        /\ Len(Exceeded(suspiciousActivity', ip)) =
                              Len(Exceeded(suspiciousActivity, ip)) + 1
                   ELSE /\ reply'.status # 429
                        /\ admitted' = Admit(admitted, ip, now)
                        /\ suspiciousActivity' = suspiciousActivity
      ]_vars

\* The first address was refused at the end of a full window while the
\* second address, after its own requests, was admitted.
C23_Witness ==
    /\ now = RateWindow - 1
    /\ Len(CountsOf(admitted, "ip1")) = RateMax
    /\ Len(Exceeded(suspiciousActivity, "ip1")) >= 1
    /\ Len(CountsOf(admitted, "ip2")) = 1
    /\ reply.who = "ip2"
    /\ reply.status = 401

(***************************************************************************)
(* SpecBoard: the leaderboard among trades.  Of the two loaded users the   *)
(* first buys and sells 10 shares of one symbol at the price 100 under the *)
(* token of the registration, one request at a time, while leaderboards    *)
(* are computed whose fetches are answered 100 or 200.                     *)
(***************************************************************************)
MaxBoardRequests == 3
BoardAnswers == {Price(100), Price(200)}

NextBoard ==
    \/ BuyRequest({Tokens[1]}, {"X"}, {JInt(10)}, MaxBoardRequests, 1)
    \/ SellRequest({Tokens[1]}, {"X"}, {JInt(10)}, MaxBoardRequests, 1)
    \/ BuyResume({Price(100)}, WritesSucceed)
    \/ SellResume({Price(100)}, WritesSucceed)
    \/ LeaderboardArrive(MaxBoards)
    \/ LeaderboardResume(BoardAnswers)

SpecBoard == InitRapid /\ [][NextBoard]_vars

\* The sum, over the settled fetches of a computation for the user that
\* delivered a price, of the price times the quantity held.
RECURSIVE FetchedValue(_, _)
FetchedValue(fetches, userId) ==
    IF fetches = <<>> THEN 0
    ELSE LET f == Head(fetches) IN
         (IF f.userId = userId /\ GoodPrice(f.fetched)
          THEN f.fetched.price.v * f.quantity ELSE 0)
         + FetchedValue(Tail(fetches), userId)

\* The user of the i-th entry a computation pushed.
EntryUser(i) == UserIds[i]

\* C25 as stated: for every entry of a leaderboard that was returned,
\* totalValue is the reported cash plus the sum of fetched price times held
\* quantity, and portfolioValue is that sum and is not negative.
C25_EntryAddsUp ==
    \A id \in DOMAIN boards :
        boards[id].done =>
            \A i \in DOMAIN boards[id].entries :
                LET e == boards[id].entries[i]
                    sum == FetchedValue(boards[id].fetches, EntryUser(i))
                IN  /\ e.portfolioValue = sum
                    /\ e.portfolioValue >= 0
                    /\ e.totalValue = e.cash + sum

(***************************************************************************)
(* SpecFailing: the leaderboard with failing fetches.  The server starts   *)
(* on the files of a run in which the first user bought 10 X and 10 Y and  *)
(* the second 10 X, all at 100; nobody trades; leaderboards are computed   *)
(* whose fetches are answered 100, 200, 0 or not at all.                   *)
(***************************************************************************)
MaxFailingBoards == 1
FailingAnswers == {Price(100), Price(200), Price(0), NoAnswer}

\* The outcome of the three buys of the earlier run.
Bought ==
    LET written == [users |-> TRUE, transactions |-> TRUE]
        d == [users |-> File(TRUE, StringifyUsers(LoadedUsers)),
              transactions |-> NoFile]
        b1 == BuySettle(LoadedUsers, <<>>, [k \in {} |-> k], d,
                        Request("buy", UserIds[1], "X", JInt(10)),
                        Price(100), 0, written)
        b2 == BuySettle(b1.users, b1.transactions, b1.log, b1.disk,
                        Request("buy", UserIds[1], "Y", JInt(10)),
                        Price(100), 0, written)
    IN  BuySettle(b2.users, b2.transactions, b2.log, b2.disk,
                  Request("buy", UserIds[2], "X", JInt(10)),
                  Price(100), 0, written)

InitFailing ==
    /\ users = LoadData(Bought.disk).users
    /\ transactions = LoadData(Bought.disk).transactions
    /\ suspiciousActivity = [k \in {} |-> k]
    /\ inflight = [r \in {} |-> r]
    /\ nextReq = 0
    /\ succeeded = 0
    /\ now = 0
    /\ disk = Bought.disk
    /\ issued = 2
    /\ reply = NoReply
    /\ boards = [b \in {} |-> b]
    /\ history = NoHistory
    /\ activeSessions = [k \in {} |-> k]
    /\ requestCounts = [k \in {} |-> k]
    /\ admitted = [k \in {} |-> k]
    /\ last = Answered(0, NoAnswer, NotWritten, 0, "")

NextFailing ==
    \/ LeaderboardArrive(MaxFailingBoards)
    \/ LeaderboardResume(FailingAnswers)

SpecFailing == InitFailing /\ [][NextFailing]_vars

\* The settled fetches of the computation for the holding of userId.
FetchesOf(b, userId, symbol) ==
    SelectSeq(b.fetches, LAMBDA f : f.userId = userId /\ f.symbol = symbol)

\* C26.  A leaderboard computation waits only at a fetch and, once every
\* fetch has settled, has returned one entry for every user; it fetched
\* once for every holding, and a user's totalValue is the cash plus the sum,
\* over the holdings whose fetch delivered a price, of that price times the
\* quantity held: a failed fetch leaves its holding out and changes nothing
\* else.
C26_FailureLeftOut ==
    \A id \in DOMAIN boards :
        LET b == boards[id] IN
        /\ ~b.done => b.awaiting # ""
        /\ \A i \in DOMAIN b.fetches :
              /\ b.fetches[i].symbol \in
                    DOMAIN users[b.fetches[i].userId].portfolio
              /\ b.fetches[i].quantity =
                    users[b.fetches[i].userId]
                        .portfolio[b.fetches[i].symbol].quantity
        /\ \A i \in DOMAIN b.entries :
              /\ b.entries[i].username = users[EntryUser(i)].username
              /\ b.entries[i].cash = users[EntryUser(i)].cash
              /\ b.entries[i].totalValue =
                    users[EntryUser(i)].cash
                        + FetchedValue(b.fetches, EntryUser(i))
              /\ \A s \in DOMAIN users[EntryUser(i)].portfolio :
                    Len(FetchesOf(b, EntryUser(i), s)) = 1
        /\ b.done =>
              /\ Len(b.entries) = Cardinality(DOMAIN users)
              /\ Len(b.response) = Cardinality(DOMAIN users)

\* A leaderboard was returned in which the fetch of the first user's X
\* failed and that of Y delivered 200, while the fetch of the second user's
\* X delivered 100: both entries are 100000.
C26_Witness ==
    \E id \in DOMAIN boards :
        /\ boards[id].done
        /\ ~GoodPrice(FetchesOf(boards[id], UserIds[1], "X")[1].fetched)
        /\ FetchesOf(boards[id], UserIds[1], "Y")[1].fetched = Price(200)
        /\ FetchesOf(boards[id], UserIds[2], "X")[1].fetched = Price(100)
        /\ boards[id].entries[1].totalValue = 100000
        /\ boards[id].entries[2].totalValue = 100000
        /\ boards[id].response[1].username = "ann"

(***************************************************************************)
(* SpecCrowd: more users and more records than a response holds.  The      *)
(* server starts on the files of a run in which some 100 users registered, *)
(* every second of which completed the tutorial, and in which the first    *)
(* user bought and sold and the second bought 10 X at 100, a trade every   *)
(* second, 100 or 101 of them the first user's.  Nobody trades; one more   *)
(* user registers; the first two users ask for their history; a            *)
(* leaderboard is computed.                                                *)
(***************************************************************************)
MaxCrowd == 101
MaxRecords == 112
CrowdAnswers == {Price(100), Price(200)}

\* The i-th user of the earlier run, for i > 2.
CrowdUser(i) ==
    IF i % 2 = 0
    THEN [Funded(UserIds[i], "user" \o ToString(i), "", -1) EXCEPT
             !.persistentSessions = <<>>]
    ELSE NewUser(UserIds[i], "user" \o ToString(i), "secret", -1)

\* The k-th trade of the earlier run: every tenth is a buy of the second
\* user, the others are the first user's, buying and selling in turn.
CrowdRequest(k) ==
    IF k % 10 = 0 THEN Request("buy", UserIds[2], "X", JInt(10))
    ELSE Request(IF (k - k \div 10) % 2 = 1 THEN "buy" ELSE "sell",
                 UserIds[1], "X", JInt(10))

\* The ledger of the first m trades of the earlier run, at the times 1000,
\* 2000, ..., all at the price 100.
CrowdLedger(m) ==
    [k \in 1..m |->
        IF CrowdRequest(k).kind = "buy"
        THEN BuyRecord(CrowdRequest(k).userId, "X", 10, 100, 1000 * k)
        ELSE SellRecord(CrowdRequest(k).userId, "X", 10, 100, 1000 * k)]

\* A loaded user after buys and sells of X at 100 that left held shares.
CrowdTrader(id, held) ==
    [LoadedUsers[id] EXCEPT
        !.cash = TutorialAward - 100 * held,
        !.portfolio = IF held = 0 THEN [s \in {} |-> s]
                      ELSE SetHolding([s \in {} |-> s], "X",
                                      [quantity |-> held,
                                       avgPrice |-> Whole(100)])]

\* The users after the earlier run of n users and m trades: the first user
\* holds 10 shares after an odd number of trades, the second 10 for every
\* buy.
CrowdUsers(n, m) ==
    [id \in {UserIds[i] : i \in 1..n} |->
        IF id = UserIds[1]
        THEN CrowdTrader(id, IF (m - m \div 10) % 2 = 1 THEN 10 ELSE 0)
        ELSE IF id = UserIds[2]
        THEN CrowdTrader(id, 10 * (m \div 10))
        ELSE CrowdUser(CHOOSE i \in 1..n : UserIds[i] = id)]

InitCrowd ==
    \E less \in {0, 1} :
        LET n == MaxCrowd - less
            m == MaxRecords - less
            us == CrowdUsers(n, m)
        IN
        /\ users = us
        /\ transactions = CrowdLedger(m)
        /\ suspiciousActivity = [k \in {} |-> k]
        /\ inflight = [r \in {} |-> r]
        /\ nextReq = 0
        /\ succeeded = 0
        /\ now = 1000 * (m + 1)
        /\ disk = [users |-> File(TRUE, StringifyUsers(us)),
                   transactions |->
                       File(TRUE, StringifyTransactions(CrowdLedger(m)))]
        /\ issued = 2
        /\ reply = NoReply
        /\ boards = [b \in {} |-> b]
        /\ history = NoHistory
        /\ activeSessions = [k \in {} |-> k]
        /\ requestCounts = [k \in {} |-> k]
        /\ admitted = [k \in {} |-> k]
        /\ last = Answered(0, NoAnswer, NotWritten, 0, "")

NextCrowd ==
    \/ Register({"zed"}, {"secret"}, 3, WritesSucceed, FALSE)
    \/ TransactionsRequest({Tokens[1], Tokens[2], ""})
    \/ LeaderboardArrive(1)
    \/ LeaderboardResume(CrowdAnswers)

SpecCrowd == InitCrowd /\ [][NextCrowd]_vars

\* The users a computation has pushed, is at, or has still to visit.
BoardCount(b) ==
    Len(b.entries) + Len(b.keys) + (IF b.user = "" THEN 0 ELSE 1)

\* The smaller of two numbers.
Min(a, b) == IF a < b THEN a ELSE b

\* The entry is one of the sequence.
Among(e, seq) == \E j \in DOMAIN seq : seq[j] = e

\* C24.  A leaderboard computation has one entry for every user there was
\* when the request arrived, in the order of the users map; what it returns
\* are entries of distinct users in descending order of totalValue, all of
\* them when they are at most LeaderboardSize and otherwise LeaderboardSize
\* of them, none of which has a smaller totalValue than an entry left out.
C24_Leaderboard ==
    [][ \A id \in DOMAIN boards' :
          LET b == boards'[id]
              r == b.response
          IN
          /\ BoardCount(b) = IF id \in DOMAIN boards
                             THEN BoardCount(boards[id])
                             ELSE Cardinality(DOMAIN users)
          /\ \A i \in DOMAIN b.entries :
                b.entries[i].username = users'[UserIds[i]].username
          /\ b.done =>
                /\ BoardCount(b) = Len(b.entries)
                /\ Len(r) = Min(Len(b.entries), LeaderboardSize)
                /\ \A i \in 1..(Len(r) - 1) :
                      r[i].totalValue >= r[i + 1].totalValue
                /\ \A i \in DOMAIN r : Among(r[i], b.entries)
                /\ \A i, j \in DOMAIN r :
                      i # j => r[i].username # r[j].username
                /\ \A j \in DOMAIN b.entries :
                      ~Among(b.entries[j], r) =>
                          b.entries[j].totalValue <= r[Len(r)].totalValue
      ]_vars

\* A leaderboard of more than LeaderboardSize users was returned with
\* LeaderboardSize entries of differing values, after a user registered
\* while it was suspended.
C24_Witness ==
    \E id \in DOMAIN boards :
        /\ boards[id].done
        /\ Len(boards[id].entries) > LeaderboardSize
        /\ Len(boards[id].response) = LeaderboardSize
        /\ boards[id].response[1].totalValue >
              boards[id].response[2].totalValue
        /\ boards[id].response[LeaderboardSize].totalValue = 0
        /\ Cardinality(DOMAIN users) > Len(boards[id].entries)

\* The records of the ledger that are the user's.
RecordsOf(userId) == SelectSeq(transactions, LAMBDA x : x.userId = userId)

\* C28.  The history returned to a user (the ledger being the one it was
\* taken from: nobody trades in SpecCrowd) holds only records of the ledger
\* that are the user's, in descending order of timestamp, all of them when
\* they are at most HistorySize and otherwise HistorySize of them, none of
\* which is older than a record left out.
C28_History ==
    history.userId # "" =>
        LET r == history.records
            mine == RecordsOf(history.userId)
        IN  /\ \A i \in DOMAIN r :
                  /\ r[i].userId = history.userId
                  /\ Among(r[i], mine)
            /\ \A i \in 1..(Len(r) - 1) :
                  r[i].timestamp >= r[i + 1].timestamp
            /\ Len(r) = Min(Len(mine), HistorySize)
            /\ \A j \in DOMAIN mine :
                  ~Among(mine[j], r) =>
                      mine[j].timestamp <= r[Len(r)].timestamp

\* The first user, with one record more than HistorySize, was returned the
\* HistorySize latest, the last trade first, without the first trade.
C28_Witness ==
    /\ history.userId = UserIds[1]
    /\ Len(RecordsOf(UserIds[1])) = HistorySize + 1
    /\ Len(history.records) = HistorySize
    /\ history.records[1] = transactions[Len(transactions)]
    /\ ~Among(transactions[1], history.records)
    /\ Len(RecordsOf(UserIds[2])) > 0

(***************************************************************************)
(* SpecRead: the read routes among trades.  The server starts on the files *)
(* of the run of SpecFailing; the second user buys 10 X at 100, at that    *)
(* time or a second later; the portfolio and the history are asked for     *)
(* under the users' tokens and under a token never issued, and a           *)
(* leaderboard is computed whose fetches are answered 100 or not at all.   *)
(***************************************************************************)
MaxReadRequests == 2
MaxReadTrades == 1

NextRead ==
    \/ Portfolio({"ip1"}, {Tokens[1], "forged"}, MaxReadRequests)
    \/ TransactionsRequest({Tokens[1], Tokens[2], "forged"})
    \/ LeaderboardArrive(1)
    \/ LeaderboardResume({Price(100), NoAnswer})
    \/ BuyRequest({Tokens[2]}, {"X"}, {JInt(10)}, MaxReadTrades, 1)
    \/ BuyResume({Price(100)}, WritesSucceed)
    \/ Advance({RapidWindow})

SpecRead == InitFailing /\ [][NextRead]_vars

\* The step belongs to a read route: no buy or sell arrives or settles.
ReadStep == nextReq' = nextReq /\ last' = last

\* C27.  A step of the portfolio view, of the leaderboard or of the history
\* leaves the users map and the ledger, with the order of its records, as
\* they are.
C27_ReadsChangeNothing ==
    [][ReadStep => (users' = users /\ transactions' = transactions)]_vars

\* After a trade the portfolio was shown, the history of the second user
\* was returned with both of its records, and a leaderboard was returned.
C27_Witness ==
    /\ Len(transactions) = 4
    /\ reply.op = "portfolio"
    /\ reply.status = 200
    /\ history.userId = UserIds[2]
    /\ Len(history.records) = 2
    /\ history.records[1].timestamp > history.records[2].timestamp
    /\ \E id \in DOMAIN boards : boards[id].done

(***************************************************************************)
(* SpecValidate: the states validateTradeRequest is called in.  The two    *)
(* loaded users buy one share at a time at the price 100, with quantities  *)
(* the validator refuses in between, all within the same millisecond.      *)
(***************************************************************************)
MaxValidateRequests == 7

NextValidate ==
    \/ BuyArrive({"X"}, {JInt(1), JFrac(1)}, MaxValidateRequests, 1)
    \/ BuyResume({Price(100)}, WritesSucceed)

SpecValidate == InitRapid /\ [][NextValidate]_vars

\* The arguments validateTradeRequest is applied to in every state: a user
\* who is or is not in the users map; quantities and prices that pass and
\* that fail.
ValidateUsers == {UserIds[1], UserIds[2], "nobody"}
PassingQuantities == {JInt(1), JInt(10)}
FailingQuantities == {JInt(0), JInt(-1), JFrac(1), JFrac(-1), JStr, JNone}
PassingPrices == {JInt(100), JFrac(1)}
FailingPrices == {JInt(0), JInt(-5), JFrac(-1), JStr, JNone}

\* The user has more than RapidLimit records less than RapidWindow
\* milliseconds old.
Rapid(userId) ==
    Cardinality({i \in DOMAIN transactions :
                    /\ transactions[i].userId = userId
                    /\ now - transactions[i].timestamp < RapidWindow})
        > RapidLimit

\* The reason the checks give in their order: user, quantity, price,
\* velocity ("" when all pass).
ReasonInOrder(userId, quantity, price) ==
    IF userId \notin DOMAIN users THEN "User not found"
    ELSE IF quantity \in FailingQuantities THEN "Invalid quantity"
    ELSE IF price \in FailingPrices THEN "Invalid price"
    ELSE IF Rapid(userId) THEN "Trading too quickly"
    ELSE ""

\* The events the validator logs for the reason.
EventOf(reason) ==
    CASE reason = "Invalid quantity" -> "INVALID_QUANTITY"
      [] reason = "Invalid price" -> "INVALID_PRICE"
      [] reason = "Trading too quickly" -> "RAPID_TRADING"
      [] OTHER -> ""

\* C29.  In every state, for every user, quantity and price,
\* validateTradeRequest gives the reason of the first check that fails in
\* the order user, quantity, price, velocity, and is valid when none fails;
\* with a reason other than 'User not found' it logs exactly one event, of
\* the reason's type and under the user, and nothing else; with 'User not
\* found' and when valid it logs nothing.
C29_ChecksInOrder ==
    \A userId \in ValidateUsers,
       quantity \in PassingQuantities \cup FailingQuantities,
       price \in PassingPrices \cup FailingPrices :
        LET v == ValidateTradeRequest(users, transactions,
                     suspiciousActivity, userId, "X", quantity, price, now)
            reason == ReasonInOrder(userId, quantity, price)
            key == <<userId, EventOf(reason)>>
        IN  /\ v.reason = reason
            /\ v.valid <=> reason = ""
            /\ IF reason \in {"", "User not found"}
               THEN v.log = suspiciousActivity
               ELSE /\ DOMAIN v.log = DOMAIN suspiciousActivity \cup {key}
                    /\ \A k \in DOMAIN suspiciousActivity \ {key} :
                          v.log[k] = suspiciousActivity[k]
                    /\ Len(v.log[key]) =
                          Logged(suspiciousActivity, userId, EventOf(reason))
                              + 1

\* The first user trades too quickly and has an INVALID_QUANTITY event on
\* the log, the second user does not trade too quickly: an invalid quantity
\* with an invalid price is then refused for the quantity, a valid request
\* of the first user for the velocity.
C29_Witness ==
    /\ Rapid(UserIds[1])
    /\ ~Rapid(UserIds[2])
    /\ Logged(suspiciousActivity, UserIds[1], "INVALID_QUANTITY") > 0
    /\ ValidateTradeRequest(users, transactions, suspiciousActivity,
                            UserIds[1], "X", JFrac(1), JStr, now).reason
          = "Invalid quantity"
    /\ ValidateTradeRequest(users, transactions, suspiciousActivity,
                            UserIds[1], "X", JInt(1), JInt(100), now).reason
          = "Trading too quickly"

(***************************************************************************)
(* SpecLog: the log of suspicious activity.  The two loaded users buy and  *)
(* sell 10 shares or a fractional quantity of one symbol, one request at a *)
(* time, at the price 100 or at a price that is a string, and log in with  *)
(* the right or a wrong password.                                          *)
(***************************************************************************)
MaxLogRequests == 3
LogQuantities == {JInt(10), JFrac(1)}
LogAnswers == {Price(100), [ok |-> TRUE, price |-> JStr]}
LogPasswords == {"secret", "wrong"}

NextLog ==
    \/ BuyArrive({"X"}, LogQuantities, MaxLogRequests, 1)
    \/ SellArrive({"X"}, LogQuantities, MaxLogRequests, 1)
    \/ BuyResume(LogAnswers, WritesSucceed)
    \/ SellResume(LogAnswers, WritesSucceed)
    \/ Login({"ip1"}, {"ann"}, LogPasswords, MaxLogins + 2, WritesSucceed)

SpecLog == InitRapid /\ [][NextLog]_vars

\* The log without events.
NoEvents == [k \in {} |-> k]

\* Two outcomes with the same response and the same users, ledger and
\* files.
SameOutcome(a, b) ==
    /\ a.status = b.status
    /\ a.error = b.error
    /\ a.users = b.users
    /\ a.disk = b.disk

\* C30.  In every state, every buy, sell and login has the outcome it would
\* have with an empty log: the same response, users map, ledger and files.
C30_LogIgnored ==
    LET written == [users |-> TRUE, transactions |-> TRUE] IN
    /\ \A userId \in DOMAIN users, quantity \in LogQuantities,
          gw \in LogAnswers :
          LET req == Request("buy", userId, "X", quantity)
              b == BuySettle(users, transactions, suspiciousActivity, disk,
                             req, gw, now, written)
              b0 == BuySettle(users, transactions, NoEvents, disk, req, gw,
                              now, written)
              s == SellSettle(users, transactions, suspiciousActivity, disk,
                              req, gw, now, written)
              s0 == SellSettle(users, transactions, NoEvents, disk, req, gw,
                               now, written)
          IN  /\ SameOutcome(b, b0)
              /\ b.transactions = b0.transactions
              /\ SameOutcome(s, s0)
              /\ s.transactions = s0.transactions
    /\ \A username \in {"ann", "bob", "nobody", ""},
          password \in LogPasswords :
          SameOutcome(LoginUser(users, suspiciousActivity, disk, "ip1",
                                username, password, Tokens[issued + 1], now,
                                TRUE),
                      LoginUser(users, NoEvents, disk, "ip1", username,
                                password, Tokens[issued + 1], now, TRUE))

\* A login succeeded after a failed login of the same address, and the log
\* holds an event of a user who holds shares.
C30_Witness ==
    /\ reply.op = "login"
    /\ reply.status = 200
    /\ Logged(suspiciousActivity, "ip1", "FAILED_LOGIN") > 0
    /\ \E u \in DOMAIN users :
          /\ Logged(suspiciousActivity, u, "INVALID_QUANTITY")
                + Logged(suspiciousActivity, u, "INVALID_PRICE") > 0
          /\ DOMAIN users[u].portfolio # {}

(***************************************************************************)
(* SpecRestart: sessions across restarts.  On a server started without     *)
(* data files one user registers, logs in and out and completes the UI     *)
(* tutorial, each write of the users file succeeding or failing; the       *)
(* portfolio is requested under the tokens issued or under a token that    *)
(* was never issued, the clock moves past the inactivity limit, and the    *)
(* server restarts at any point.                                           *)
(***************************************************************************)
MaxRestartTokens == 2
MaxRestartRequests == 1
RestartTokens == {Tokens[1], Tokens[2], "forged"}
RestartTimes == {InactivityLimit + 1}

NextRestart ==
    \/ Register({"ann"}, {"secret"}, MaxRestartTokens, WritesSucceed, TRUE)
    \/ Login({"ip1"}, {"ann"}, {"secret"}, MaxRestartTokens, WritesSucceed)
    \/ Logout(RestartTokens \ {"forged"}, WritesMayFail)
    \/ UiComplete(WritesSucceed)
    \/ Portfolio({"ip1"}, RestartTokens, MaxRestartRequests)
    \/ Advance(RestartTimes)
    \/ Restart

SpecRestart == Init /\ [][NextRestart]_vars

\* No session in memory: activeSessions after a restart.
NoSessions == [k \in {} |-> k]

\* validateSession would accept the token at time t on a server that has
\* just started from the files d.
AcceptedAfterRestart(d, token, t) ==
    ValidateSession(NoSessions, LoadData(d).users, token, t).status = 200

\* The step issues a token (register or login answers 200) and the write
\* of the users file that the handler makes succeeds.
IssuesSaved(op) ==
    /\ issued' = issued + 1
    /\ reply'.op = op
    /\ reply'.status = 200
    /\ reply'.w

\* The step is a logout of the token.
LogsOut(token) ==
    /\ reply'.op = "logout"
    /\ reply'.who = token
    /\ reply'.status = 200

\* C31.  A step that issues a token, by register or by login, with the
\* users file written, leads to a state from which a restart would have the
\* token accepted by validateSession.
C31_IssuedTokenSurvives ==
    [][ \A op \in {"register", "login"} :
          IssuesSaved(op) =>
              AcceptedAfterRestart(disk', Tokens[issued'], now') ]_vars

\* C31, for login alone: the token of a login whose write succeeded would
\* be accepted after a restart, and a token that would be accepted and was
\* not logged out stays so until a logout of it; the token of a
\* registration would not be accepted
\* after a restart that follows the registration.
C31_LoginTokenSurvives ==
    [][ /\ IssuesSaved("login") =>
              AcceptedAfterRestart(disk', Tokens[issued'], now')
        /\ IssuesSaved("register") =>
              ~AcceptedAfterRestart(disk', Tokens[issued'], now')
        /\ \A token \in RestartTokens :
              /\ AcceptedAfterRestart(disk, token, now)
              /\ IssuedTo(users, token) # {}
              /\ ~LogsOut(token)
              => AcceptedAfterRestart(disk', token, now') ]_vars

\* The server restarted after a registration and a login whose writes
\* succeeded: the token of the login is accepted, that of the registration
\* is not.
C31_Witness ==
    /\ reply.op = "restart"
    /\ issued = 2
    /\ ValidateSession(activeSessions, users, Tokens[2], now).status = 200
    /\ ValidateSession(activeSessions, users, Tokens[1], now).status = 401

\* validateSession answers 401 to the token in the current state.
RejectedNow(sessions, us, token, t) ==
    ValidateSession(sessions, us, token, t).status = 401

\* The step issues the token.
Issues(token) == issued' = issued + 1 /\ Tokens[issued'] = token

\* The step is a restart of the server.
Restarts == reply'.op = "restart" /\ now' = now

\* The token is answered 401, and would be after a restart.
Dead(sessions, us, d, token, t) ==
    /\ RejectedNow(sessions, us, token, t)
    /\ ~AcceptedAfterRestart(d, token, t)

UsedAfterInactivity(token) ==
    /\ RequestFrom("ip1")
    /\ reply'.op = "portfolio"
    /\ reply'.arg = token
    /\ reply'.status # 429
    /\ token \in DOMAIN activeSessions
    /\ now - activeSessions[token].lastActivity > InactivityLimit

\* C33.  A request under a token whose session was used last more than
\* InactivityLimit milliseconds before is answered 401.
C33_InactiveRejected ==
    [][ \A token \in RestartTokens :
          UsedAfterInactivity(token) => reply'.status = 401 ]_vars

\* C33, what the code does: the request is answered 401 only if no user
\* holds the token among the persistent sessions; otherwise it is accepted
\* and the session is entered anew, used last now.
C33_InactiveRestored ==
    [][ \A token \in RestartTokens :
          UsedAfterInactivity(token) =>
              IF IssuedTo(users, token) = {}
              THEN reply'.status = 401
              ELSE /\ reply'.status = 200
                   /\ activeSessions'[token].lastActivity = now ]_vars

(***************************************************************************)
(* The bcrypt/JWT variant of the server (unnamed/part_000): POST           *)
(* /api/register awaits bcrypt.hash between the test of the username and   *)
(* the insertion of the user.  A registration suspended at the hash is     *)
(* held in inflight under the number of its request.  The userId drawn     *)
(* before the await is random; the model names it when the user is         *)
(* inserted, by the order of insertion.                                    *)
(***************************************************************************)
\* bcrypt.hash(password, 10)
BcryptHash(password) == <<"bcrypt", password>>

\* users[userId] = { ... } of the variant
HashedUser(userId, username, hashedPassword, t) ==
    [userId |-> userId, username |-> username, password |-> hashedPassword,
     cash |-> 0, portfolio |-> [s \in {} |-> s], tutorialStep |-> 0,
     tutorialCompleted |-> FALSE, uiTutorialCompleted |-> FALSE,
     createdAt |-> t, lastActivity |-> t]

\* JSON.stringify of a user of the variant
StringifyHashedUser(u) ==
    [userId |-> u.userId, username |-> u.username, password |-> u.password,
     cash |-> JNumber(u.cash),
     portfolio |-> [k \in DOMAIN u.portfolio |-> StringifyHolding(u.portfolio[k])],
     tutorialStep |-> JNumber(u.tutorialStep),
     tutorialCompleted |-> u.tutorialCompleted,
     uiTutorialCompleted |-> u.uiTutorialCompleted,
     createdAt |-> JNumber(u.createdAt),
     lastActivity |-> JNumber(u.lastActivity)]

\* saveUsers() of the variant; ok tells whether writeFileSync succeeds
SaveHashedUsers(d, us, ok) ==
    LET ids == SelectSeq(UserIds, LAMBDA id : id \in DOMAIN us)
        doc == [i \in 1..Len(ids) |-> <<ids[i], StringifyHashedUser(us[ids[i]])>>]
    IN  IF ok THEN [d EXCEPT !.users = File(TRUE, doc)] ELSE d

\* The handler up to the await: the status and the error it answers, 0
\* when it goes on to the hash.
RegisterChecks(us, username, password) ==
    IF username = "" \/ password = ""
    THEN [status |-> 400, error |-> "Username and password required"]
    ELSE IF Len(username) < 3 \/ Len(username) > 20
    THEN [status |-> 400, error |-> "Username must be 3-20 characters"]
    ELSE IF Len(password) < 6
    THEN [status |-> 400, error |-> "Password must be at least 6 characters"]
    ELSE IF UsernameTaken(us, username)
    THEN [status |-> 409, error |-> "Username already exists"]
    ELSE [status |-> 0, error |-> ""]

\* A registration suspended at the hash.
Registration(username, password) ==
    [kind |-> "register", username |-> username, password |-> password]

\* A registration arrives: it is answered at once when a check fails, and
\* otherwise suspends at bcrypt.hash.  limit bounds the requests.
RegisterArrive(names, passwords, limit) ==
    \E username \in names, password \in passwords :
        LET r == nextReq + 1
            c == RegisterChecks(users, username, password)
        IN
        /\ nextReq < limit
        /\ nextReq' = r
        /\ IF c.status # 0
           THEN /\ reply' = Reply("register", username, password, FALSE,
                                  c.status, c.error)
                /\ UNCHANGED inflight
           ELSE /\ inflight' = [k \in DOMAIN inflight \cup {r} |->
                                   IF k = r
                                   THEN Registration(username, password)
                                   ELSE inflight[k]]
                /\ reply' = reply
        /\ UNCHANGED <<users, transactions, suspiciousActivity, succeeded,
                       now, disk, issued, last, boards, history,
                       activeSessions, requestCounts, admitted>>

\* The hash of a suspended registration is done: the user is inserted, the
\* users file is written and the registration is answered.
RegisterResume(writes) ==
    \E r \in DOMAIN inflight, w \in writes :
        LET reg == inflight[r]
            userId == UserIds[Cardinality(DOMAIN users) + 1]
            us2 == [id \in DOMAIN users \cup {userId} |->
                       IF id = userId
                       THEN HashedUser(userId, reg.username,
                                       BcryptHash(reg.password), now)
                       ELSE users[id]]
        IN
        /\ users' = us2
        /\ disk' = SaveHashedUsers(disk, us2, w)
        /\ inflight' = [k \in DOMAIN inflight \ {r} |-> inflight[k]]
        /\ reply' = Reply("register", reg.username, reg.password, w, 200, "")
        /\ UNCHANGED <<transactions, suspiciousActivity, nextReq, succeeded,
                       now, issued, last, boards, history, activeSessions,
                       requestCounts, admitted>>

(***************************************************************************)
(* SpecHash: registrations of the variant under names that differ in case  *)
(* only, under another name and under a name that is too short, suspended  *)
(* at the hash together and resumed in any order.                          *)
(***************************************************************************)
MaxHashRequests == 3
HashNames == {"ann", "ANN", "bob", "al"}

NextHash ==
    \/ RegisterArrive(HashNames, {"secret"}, MaxHashRequests)
    \/ RegisterResume(WritesSucceed)

SpecHash == Init /\ [][NextHash]_vars

\* C34.  In every state of the variant no two users have usernames that are
\* equal ignoring case.
C34_NoEqualNames ==
    \A a \in DOMAIN users :
        \A b \in DOMAIN users \ {a} :
            ~SameIgnoringCase(users[a].username, users[b].username)

\* C34, what the variant does keep: a registration that arrives when a user
\* has the name, ignoring case, is answered 409 and leaves the users as
\* they are.
C34_LateDuplicateRejected ==
    [][ \A username \in HashNames :
          /\ nextReq' = nextReq + 1
          /\ UsernameTaken(users, username)
          /\ inflight' = inflight
          /\ reply'.who = username
          => reply'.status = 409 /\ users' = users ]_vars

(***************************************************************************)
(* SpecLive: the gateway answers every fetch but those for one symbol,     *)
(* which never resolve.  The two loaded users buy and sell 10 shares of a  *)
(* symbol that is answered (100, or an error) or of the symbol that is     *)
(* not, or send no quantity; the requests are all suspended together.  The *)
(* fetch of each request for an answered symbol is eventually answered.    *)
(***************************************************************************)
MaxLiveRequests == 2
HungSymbols == {"Z"}
LiveSymbols == {"X", "Z"}
LiveQuantities == {JInt(10), JNone}
LiveAnswers == {Price(100), NoAnswer}

\* The fetch of request r never resolves.
Hung(r) == r \in DOMAIN inflight /\ ToUpperCase(inflight[r].symbol) \in HungSymbols

\* The gateway answers the fetch of request r and its handler runs to the
\* response.
FetchAnswered(r, answers) ==
    /\ r \in DOMAIN inflight
    /\ ~Hung(r)
    /\ \E gw \in answers, w \in WriteOutcomes(WritesSucceed) :
          IF inflight[r].kind = "buy"
          THEN Resume(r, gw, w, BuySettle(users, transactions,
                                          suspiciousActivity, disk,
                                          inflight[r], gw, now, w))
          ELSE Resume(r, gw, w, SellSettle(users, transactions,
                                           suspiciousActivity, disk,
                                           inflight[r], gw, now, w))

NextLive ==
    \/ BuyArrive(LiveSymbols, LiveQuantities, MaxLiveRequests, MaxLiveRequests)
    \/ SellArrive(LiveSymbols, LiveQuantities, MaxLiveRequests, MaxLiveRequests)
    \/ \E r \in 1..MaxLiveRequests : FetchAnswered(r, LiveAnswers)

SpecLive ==
    /\ InitRapid
    /\ [][NextLive]_vars
    /\ \A r \in 1..MaxLiveRequests : WF_vars(FetchAnswered(r, LiveAnswers))

\* Request r is suspended at its fetch.
Suspended(r) == r \in DOMAIN inflight

\* The step answers request r.
AnswersTo(r) == last'.id = r /\ last' # last

\* C35.  A request is answered when it arrives or suspends at its fetch; a
\* suspended request whose fetch the gateway answers is eventually
\* answered; a request is answered at most once, by the step in which it
\* arrives or by the step that ends its suspension, and is not suspended
\* again; a request whose fetch never resolves stays suspended for ever;
\* and users and transactions change only in a step that answers a request
\* whose fetch was answered, so that a request that stays suspended changes
\* neither, whatever other requests are suspended with it.
C35_EveryRequestAnswered ==
    /\ \A r \in 1..MaxLiveRequests :
          (Suspended(r) /\ ~Hung(r)) ~> ~Suspended(r)
    /\ [][ /\ \A r \in 1..MaxLiveRequests :
                /\ Hung(r) => Hung(r)'
                /\ nextReq' = r /\ nextReq = r - 1 =>
                      (AnswersTo(r) /\ ~Suspended(r)') \/ (Suspended(r)' /\ last' = last)
                /\ AnswersTo(r) =>
                      \/ nextReq = r - 1 /\ nextReq' = r /\ ~Suspended(r)'
                      \/ Suspended(r) /\ ~Hung(r) /\ ~Suspended(r)'
                /\ r <= nextReq /\ ~Suspended(r) => ~Suspended(r)'
           /\ users' # users \/ transactions' # transactions =>
                \E r \in DOMAIN inflight :
                    /\ ~Hung(r)
                    /\ AnswersTo(r)
                    /\ DOMAIN inflight' = DOMAIN inflight \ {r}
                    /\ \A u \in DOMAIN users \ {inflight[r].userId} :
                          users'[u] = users[u]
         ]_vars

\* A request whose fetch never resolves is suspended, and a later buy of
\* the same user was answered with success, its record being the last one
\* of the ledger.
C35_Witness ==
    \E r \in DOMAIN inflight :
        /\ Hung(r)
        /\ last.id > r
        /\ last.status = 200
        /\ transactions # <<>>
        /\ transactions[Len(transactions)].userId = inflight[r].userId

(***************************************************************************)
(* C36 is checked under SpecReject, where requests arrive and settle       *)
(* before, during and after the tutorial.                                  *)
(***************************************************************************)
\* The user has not completed the tutorial, has no cash and no holding, and
\* the ledger has no record of the user.
Unfunded(us, txs, u) ==
    /\ ~us[u].tutorialCompleted
    /\ us[u].cash = 0
    /\ DOMAIN us[u].portfolio = {}
    /\ \A i \in DOMAIN txs : txs[i].userId # u

\* The step settles a request of a user who has not completed the tutorial.
SettlesBeforeCompletion ==
    /\ Settles
    /\ ~users[Settled.userId].tutorialCompleted

\* The error of a request that fails for the lack of funds or of shares.
Insufficient(kind) ==
    IF kind = "buy" THEN "Insufficient funds" ELSE "Insufficient shares"

\* C36, as claimed.  A user who has not completed the tutorial has no cash,
\* no holding and no record, and every buy of such a user that settles is
\* rejected with 'Insufficient funds', every sell with 'Insufficient
\* shares'.
C36_AlwaysInsufficient ==
    [][ /\ \A u \in DOMAIN users' :
              ~users'[u].tutorialCompleted => Unfunded(users', transactions', u)
        /\ SettlesBeforeCompletion => Rejected(Insufficient(Settled.kind))
      ]_vars

\* C36, amended.  A user who has not completed the tutorial has no cash, no
\* holding and no record; a buy or sell of such a user that settles
\* changes neither users nor ledger and is rejected: with the error of the
\* fetch when the fetch fails, with the reason of the validator when the
\* validator refuses it, and otherwise with 'Insufficient funds' for a buy
\* and 'Insufficient shares' for a sell.
C36_NothingBeforeCompletion ==
    [][ /\ \A u \in DOMAIN users' :
              ~users'[u].tutorialCompleted => Unfunded(users', transactions', u)
        /\ SettlesBeforeCompletion =>
              /\ users' = users
              /\ transactions' = transactions
              /\ IF FetchFails(last'.fetched) THEN last'.status = 500
                 ELSE IF ExpectedReason # "ok" THEN Rejected(ExpectedReason)
                 ELSE Rejected(Insufficient(Settled.kind))
      ]_vars

\* In the middle of the tutorial a buy at a good price was rejected for the
\* lack of funds.
C36_Witness ==
    /\ \E u \in DOMAIN users :
          /\ Unfunded(users, transactions, u)
          /\ users[u].tutorialStep > 0
    /\ \A u \in DOMAIN users : ~users[u].tutorialCompleted
    /\ last.status = 400
    /\ last.error = "Insufficient funds"
    /\ GoodPrice(last.fetched)

(***************************************************************************)
(* SpecCase: the casing of symbols.  The two loaded users buy and sell 10  *)
(* shares under the symbol 'x' or 'X', one request at a time; the fetch is *)
(* answered 100 or fails.                                                  *)
(***************************************************************************)
MaxCaseRequests == 4
CaseSymbols == {"x", "X"}
CaseAnswers == {Price(100), NoAnswer}

NextCase ==
    \/ BuyArrive(CaseSymbols, {JInt(10)}, MaxCaseRequests, 1)
    \/ SellArrive(CaseSymbols, {JInt(10)}, MaxCaseRequests, 1)
    \/ BuyResume(CaseAnswers, WritesSucceed)
    \/ SellResume(CaseAnswers, WritesSucceed)

SpecCase == InitRapid /\ [][NextCase]_vars

\* The portfolio of the user of the settled request, before and after.
PortfolioBefore == users[Settled.userId].portfolio

PortfolioAfter == users'[Settled.userId].portfolio

\* The holdings under symbols other than that of the settled request are
\* as they were.
OtherHoldingsKept ==
    \A s \in (DOMAIN PortfolioBefore \cup DOMAIN PortfolioAfter)
                \ {Settled.symbol} :
        /\ s \in DOMAIN PortfolioBefore
        /\ s \in DOMAIN PortfolioAfter
        /\ PortfolioAfter[s] = PortfolioBefore[s]

\* C37.  The fetch of a settled request is made for the upper-cased symbol
\* (the error of a failed fetch names it); a buy that succeeds creates or
\* raises the holding under the symbol as submitted, leaves every other
\* holding, that of the other casing included, as it was, and its record
\* carries the symbol as submitted; a sell whose fetch succeeds and whose
\* symbol as submitted is not held is rejected with 'Insufficient shares',
\* whatever is held under the other casing; a sell that succeeds touches
\* the holding under the symbol as submitted only.
C37_KeyedAsSubmitted ==
    [][ Settles =>
          /\ FetchFails(last'.fetched) =>
                /\ last'.status = 500
                /\ last'.error =
                      "Error fetching X: Failed to fetch stock price"
          /\ last'.status = 200 =>
                /\ OtherHoldingsKept
                /\ transactions'[Len(transactions')].symbol = Settled.symbol
                /\ Settled.kind = "buy" =>
                      /\ Settled.symbol \in DOMAIN PortfolioAfter
                      /\ PortfolioAfter[Settled.symbol].quantity =
                            HeldQuantity(users[Settled.userId], Settled.symbol)
                               + Settled.quantity.v
                /\ Settled.kind = "sell" =>
                      /\ Settled.symbol \in DOMAIN PortfolioBefore
          /\ /\ Settled.kind = "sell"
             /\ ~FetchFails(last'.fetched)
             /\ Settled.symbol \notin DOMAIN PortfolioBefore
             => /\ Rejected("Insufficient shares")
                /\ users' = users
                /\ transactions' = transactions
      ]_vars

\* One user holds 10 shares under 'x' and 10 under 'X'; the other holds
\* shares under 'x' only, and a sell, which can only be the sell of that
\* user under 'X', was rejected for the lack of shares although its fetch
\* was answered 100.
C37_Witness ==
    /\ \E u \in DOMAIN users :
          /\ DOMAIN users[u].portfolio = {"x", "X"}
          /\ users[u].portfolio["x"].quantity = 10
          /\ users[u].portfolio["X"].quantity = 10
    /\ \E v \in DOMAIN users : DOMAIN users[v].portfolio = {"x"}
    /\ last.error = "Insufficient shares"
    /\ GoodPrice(last.fetched)

(***************************************************************************)
(* SpecFlood: an address that keeps sending.  The address has sent RateMax *)
(* requests at time 0, all admitted, and the clock stands one millisecond  *)
(* before the end of the window that starts at 0; the address goes on      *)
(* requesting the portfolio or stays silent, and the clock moves to the    *)
(* end of that window.                                                     *)
(***************************************************************************)
MaxFloodRequests == 201
FloodTimes == {RateWindow}

\* requestCounts after RateMax requests of the address at time 0.
Flooded == [ip \in {"ip1"} |-> SubSeq([i \in 1..RateMax |-> 0], 1, RateMax)]

InitFlood ==
    /\ users = LoadedUsers
    /\ transactions = <<>>
    /\ suspiciousActivity = [k \in {} |-> k]
    /\ inflight = [r \in {} |-> r]
    /\ nextReq = 0
    /\ succeeded = 0
    /\ now = RateWindow - 1
    /\ disk = [users |-> File(TRUE, StringifyUsers(LoadedUsers)),
               transactions |-> NoFile]
    /\ issued = 2
    /\ reply = Reply("portfolio", "ip1", "", FALSE, 401, "Unauthorized")
    /\ boards = [b \in {} |-> b]
    /\ history = NoHistory
    /\ activeSessions = [k \in {} |-> k]
    /\ requestCounts = Flooded
    /\ admitted = Flooded
    /\ last = Answered(0, NoAnswer, NotWritten, 0, "")

NextFlood ==
    \/ Portfolio({"ip1"}, {""}, MaxFloodRequests)
    \/ Advance(FloodTimes)

SpecFlood == InitFlood /\ [][NextFlood]_vars

\* The requests of the address, admitted or refused, that lie less than
\* RateWindow milliseconds before now.
Trailing(ip) == InWindow(CountsOf(requestCounts, ip), now)

\* The step is a request from ip: it is entered in the record, or refused
\* and logged.
Requests(ip) ==
    \/ RequestFrom(ip)
    \/ Len(Exceeded(suspiciousActivity', ip)) >
          Len(Exceeded(suspiciousActivity, ip))

\* C38.  Every request of an address, admitted or refused, is entered in
\* the record of the address, which then holds the requests of the
\* trailing RateWindow milliseconds and the request itself; the request is
\* admitted exactly if fewer than RateMax requests of the address,
\* admitted or refused, lie in the trailing RateWindow milliseconds, so it
\* is refused as long as the address keeps RateMax requests within the
\* trailing window, and admitted when no request of the address lies
\* within it.
C38_RefusedCounts ==
    [][ Requests("ip1") =>
          /\ CountsOf(requestCounts', "ip1") = Append(Trailing("ip1"), now)
          /\ reply'.status # 429 <=> Len(Trailing("ip1")) < RateMax
          /\ reply'.status = 429 =>
                /\ reply'.error = "Too many requests"
                /\ admitted' = admitted
          /\ Trailing("ip1") = <<>> => reply'.status # 429
      ]_vars

\* At the end of the window that starts at 0 the address is refused
\* although the requests of its record are all later than 0, each of them
\* refused in its turn: no admitted request lies within the trailing
\* window.
C38_Witness ==
    /\ now = RateWindow
    /\ reply.status = 429
    /\ Len(CountsOf(requestCounts, "ip1")) > RateMax
    /\ \A i \in DOMAIN CountsOf(requestCounts, "ip1") :
          CountsOf(requestCounts, "ip1")[i] >= RateWindow - 1
    /\ \A i \in DOMAIN CountsOf(admitted, "ip1") :
          CountsOf(admitted, "ip1")[i] = 0
    /\ Len(Exceeded(suspiciousActivity, "ip1")) > RateMax

====
